---- MODULE Spec2Model ----
(***************************************************************************)
(* Model of jj-forge: the trailer functions of package jj, the Upload      *)
(* pipeline and the Submit pipeline of package change.                     *)
(*                                                                         *)
(* Text is modelled as a sequence of symbols.  A symbol is one character   *)
(* ("x", ":", " ", "\n"), or a literal of the program kept whole: "fp" is  *)
(* the literal forge-parent, "FP" the same literal in another letter case, *)
(* "sob" the key signed-off-by, "(cp" a cherry-pick marker prefix.  Change *)
(* ids ("a", "b", "r", "p") are symbols made of key characters.            *)
(***************************************************************************)
EXTENDS Integers, Sequences, FiniteSets, TLC

\* ------------------------------------------------------------------------
\* Bounds of the model
\* ------------------------------------------------------------------------
MaxRuns == 2
MaxFaults == 1
MaxSubmitStack == 3
MaxWriterMoves == 1
MaxLines == 3
MaxCalls == 2
MaxStoreCalls == 3

\* ------------------------------------------------------------------------
\* Go string helpers (package strings), over sequences of symbols
\* ------------------------------------------------------------------------
NL == "\n"
SP == " "
COLON == ":"

Letters == {"x", "k", "v", "a", "b", "r", "p", "fp", "FP", "sob"}

ToLower(s) == [i \in 1..Len(s) |-> IF s[i] = "FP" THEN "fp" ELSE s[i]]

HasPrefix(s, pre) == Len(s) >= Len(pre) /\ SubSeq(s, 1, Len(pre)) = pre

RECURSIVE TrimRight(_, _)
TrimRight(s, cutset) ==
  IF s /= <<>> /\ s[Len(s)] \in cutset
    THEN TrimRight(SubSeq(s, 1, Len(s) - 1), cutset)
    ELSE s

RECURSIVE TrimLeft(_, _)
TrimLeft(s, cutset) ==
  IF s /= <<>> /\ s[1] \in cutset THEN TrimLeft(Tail(s), cutset) ELSE s

WhiteSpace == {SP, NL, "\t", "\r"}

TrimSpace(s) == TrimLeft(TrimRight(s, WhiteSpace), WhiteSpace)

Contains(s, c) == \E i \in 1..Len(s) : s[i] = c

\* index of the first occurrence of symbol c in s, 0 when there is none
IndexOf(s, c) ==
  IF Contains(s, c) THEN CHOOSE i \in 1..Len(s) : s[i] = c /\ \A j \in 1..(i - 1) : s[j] /= c
  ELSE 0

\* strings.Split(s, "\n"): always at least one line
RECURSIVE Split(_)
Split(s) ==
  LET i == IndexOf(s, NL) IN
  IF i = 0 THEN <<s>>
  ELSE <<SubSeq(s, 1, i - 1)>> \o Split(SubSeq(s, i + 1, Len(s)))

\* strings.Join(lines, "\n")
RECURSIVE Join(_)
Join(lines) ==
  IF lines = <<>> THEN <<>>
  ELSE IF Len(lines) = 1 THEN lines[1]
  ELSE lines[1] \o <<NL>> \o Join(Tail(lines))

Reverse(s) == [i \in 1..Len(s) |-> s[Len(s) + 1 - i]]

\* ------------------------------------------------------------------------
\* package jj: forge-parent rewrite used by Upload
\* ------------------------------------------------------------------------
ForgeParentKey == <<"fp">>

\* strings.HasPrefix(strings.ToLower(line), strings.ToLower(ForgeParentKey)+":")
IsForgeParentLine(line) == HasPrefix(ToLower(line), ToLower(ForgeParentKey) \o <<COLON>>)

\* isTrailer: the "Key: Value" heuristic
isTrailer(line) ==
  LET i == IndexOf(line, COLON)
      key == TrimSpace(SubSeq(line, 1, i - 1))
  IN i /= 0 /\ key /= <<>> /\ ~Contains(key, SP)

FirstForgeParentIdx(lines) ==
  IF \E i \in 1..Len(lines) : IsForgeParentLine(lines[i])
    THEN CHOOSE i \in 1..Len(lines) :
           IsForgeParentLine(lines[i]) /\ \A j \in 1..(i - 1) : ~IsForgeParentLine(lines[j])
    ELSE 0

UpdateForgeParent(description, parentID) ==
  LET lines == Split(TrimRight(description, {NL}))
      trailer == ForgeParentKey \o <<COLON, SP>> \o parentID
      i == FirstForgeParentIdx(lines)
  IN IF i /= 0 THEN Join([lines EXCEPT ![i] = trailer]) \o <<NL>>
     ELSE IF Len(lines) = 1 /\ lines[1] = <<>> THEN trailer \o <<NL>>
     ELSE IF Len(lines) > 1 /\ isTrailer(lines[Len(lines)])
       THEN Join(lines) \o <<NL>> \o trailer \o <<NL>>
     ELSE Join(lines) \o <<NL, NL>> \o trailer \o <<NL>>

RemoveForgeParent(description) ==
  LET lines == Split(TrimRight(description, {NL}))
      keep(line) == ~IsForgeParentLine(line)
      newLines == SelectSeq(lines, keep)
  IN TrimRight(Join(newLines), {NL}) \o <<NL>>

RECURSIVE KeyLen(_)
KeyLen(line) ==
  IF line /= <<>> /\ line[1] \in Letters \cup {"0", "-"} THEN 1 + KeyLen(Tail(line)) ELSE 0

\* trailerRegex ^([a-zA-Z0-9-]+) *: *(.*)$ : the submatches, or <<>> when
\* the line does not match
trailerRegex(line) ==
  LET k == KeyLen(line)
      rest == TrimLeft(SubSeq(line, k + 1, Len(line)), {SP})
  IN IF k >= 1 /\ rest /= <<>> /\ rest[1] = COLON
       THEN <<SubSeq(line, 1, k), TrimLeft(Tail(rest), {SP})>>
       ELSE <<>>

SignedOffBy == <<"sob">>
CherryPickPrefix == <<"(cp">>

ParseStart ==
  [trailers |-> <<>>, multilineValue |-> <<>>, foundBlank |-> FALSE,
   foundGitTrailer |-> FALSE, nonTrailerLine |-> <<>>]

\* variant: the buffered continuation lines survive a discarded line
RECURSIVE ParseScan_KeepsBuffer(_, _, _)
ParseScan_KeepsBuffer(lines, i, st) ==
  IF i = 0 THEN st
  ELSE
    LET line == lines[i]
        matches == trailerRegex(line)
    IN IF HasPrefix(line, <<SP>>)
         THEN ParseScan_KeepsBuffer(lines, i - 1,
                [st EXCEPT !.multilineValue = Append(@, line)])
       ELSE IF matches /= <<>>
         THEN LET mv0 == Append(st.multilineValue, matches[2])
                  mv1 == [mv0 EXCEPT ![1] = TrimRight(@, {SP, "\t"})]
                  value == Join(Reverse(mv1))
              IN ParseScan_KeepsBuffer(lines, i - 1,
                   [st EXCEPT !.multilineValue = <<>>,
                              !.foundGitTrailer = @ \/ ToLower(matches[1]) = SignedOffBy,
                              !.trailers = Append(@, [Key |-> matches[1], Value |-> value])])
       ELSE IF HasPrefix(line, CherryPickPrefix)
         THEN ParseScan_KeepsBuffer(lines, i - 1,
                [st EXCEPT !.foundGitTrailer = TRUE, !.nonTrailerLine = line])
       ELSE IF TrimSpace(line) = <<>>
         THEN [st EXCEPT !.foundBlank = TRUE]
       ELSE ParseScan_KeepsBuffer(lines, i - 1, [st EXCEPT !.nonTrailerLine = line])

\* one iteration of the backward loop of parseTrailersImpl on lines[i]
RECURSIVE ParseScan(_, _, _)
ParseScan(lines, i, st) ==
  IF i = 0 THEN st
  ELSE
    LET line == lines[i]
        matches == trailerRegex(line)
    IN IF HasPrefix(line, <<SP>>)
         THEN ParseScan(lines, i - 1,
                [st EXCEPT !.multilineValue = Append(@, line)])
       ELSE IF matches /= <<>>
         THEN LET mv0 == Append(st.multilineValue, matches[2])
                  mv1 == [mv0 EXCEPT ![1] = TrimRight(@, {SP, "\t"})]
                  value == Join(Reverse(mv1))
              IN ParseScan(lines, i - 1,
                   [st EXCEPT !.multilineValue = <<>>,
                              !.foundGitTrailer = @ \/ ToLower(matches[1]) = SignedOffBy,
                              !.trailers = Append(@, [Key |-> matches[1], Value |-> value])])
       ELSE IF HasPrefix(line, CherryPickPrefix)
         THEN ParseScan(lines, i - 1,
                [st EXCEPT !.foundGitTrailer = TRUE, !.nonTrailerLine = line,
                           !.multilineValue = <<>>])
       ELSE IF TrimSpace(line) = <<>>
         THEN [st EXCEPT !.foundBlank = TRUE]
       ELSE ParseScan(lines, i - 1,
              [st EXCEPT !.multilineValue = <<>>, !.nonTrailerLine = line])

parseTrailersImpl(body) ==
  LET trimmed == TrimRight(body, WhiteSpace)
      lines == Split(trimmed)
      st == ParseScan(lines, Len(lines), ParseStart)
  IN IF trimmed = <<>> THEN ParseStart
     ELSE [st EXCEPT !.trailers = Reverse(@)]

\* variant: a git trailer does not excuse a non-trailer line
ParseDescriptionTrailers_NoGitException(description) ==
  LET res == parseTrailersImpl(description)
  IN IF ~res.foundBlank THEN <<>>
     ELSE IF res.nonTrailerLine /= <<>> THEN <<>>
     ELSE res.trailers

\* variant: a block is accepted without a blank line above it
ParseDescriptionTrailers_NoBoundary(description) ==
  LET res == parseTrailersImpl(description)
  IN IF res.nonTrailerLine /= <<>> /\ ~res.foundGitTrailer THEN <<>>
     ELSE res.trailers

ParseDescriptionTrailers(description) ==
  LET res == parseTrailersImpl(description)
  IN IF ~res.foundBlank THEN <<>>
     ELSE IF res.nonTrailerLine /= <<>> /\ ~res.foundGitTrailer THEN <<>>
     ELSE res.trailers

TrailerErrorBlankLine == 0
TrailerErrorNonTrailerLine == 1

\* &TrailerParseError{Kind: kind, ...}; line is the line the message quotes
TrailerParseError(kind, line) == [Kind |-> kind, line |-> line]

\* ParseTrailers: the pair (trailers, err), err a sequence of at most one error
ParseTrailers(text) ==
  LET res == parseTrailersImpl(text)
  IN IF res.foundBlank
       THEN [trailers |-> <<>>, err |-> <<TrailerParseError(TrailerErrorBlankLine, <<>>)>>]
     ELSE IF res.nonTrailerLine /= <<>>
       THEN [trailers |-> <<>>,
             err |-> <<TrailerParseError(TrailerErrorNonTrailerLine, res.nonTrailerLine)>>]
     ELSE [trailers |-> res.trailers, err |-> <<>>]

\* GetTrailer: the first trailer whose key matches case-insensitively,
\* as a sequence of at most one trailer
GetTrailer(trailers, key) ==
  LET hits == {i \in 1..Len(trailers) : ToLower(trailers[i].Key) = ToLower(key)}
  IN IF hits = {} THEN <<>>
     ELSE <<trailers[CHOOSE i \in hits : \A j \in hits : i <= j]>>

\* FormatTrailer: fmt.Sprintf("%s: %s", t.Key, t.Value)
FormatTrailer(t) == t.Key \o <<COLON, SP>> \o t.Value

\* FormatTrailers: the formatted trailers joined by "\n", "" for none
FormatTrailers(trailers) ==
  Join([i \in 1..Len(trailers) |-> FormatTrailer(trailers[i])])

SetTrailer_ReplaceAll(trailers, key, value) ==
  IF \A i \in 1..Len(trailers) : ToLower(trailers[i].Key) /= ToLower(key)
    THEN Append(trailers, [Key |-> key, Value |-> value])
    ELSE [i \in 1..Len(trailers) |->
            IF ToLower(trailers[i].Key) = ToLower(key)
              THEN [Key |-> key, Value |-> value] ELSE trailers[i]]

\* SetTrailer: replace the first trailer with that key, append when none has it
SetTrailer(trailers, key, value) ==
  LET hits == {i \in 1..Len(trailers) : ToLower(trailers[i].Key) = ToLower(key)}
  IN IF hits = {} THEN Append(trailers, [Key |-> key, Value |-> value])
     ELSE [trailers EXCEPT ![CHOOSE i \in hits : \A j \in hits : i <= j] =
                             [Key |-> key, Value |-> value]]

\* RemoveTrailer: drop every trailer with that key
RECURSIVE RemoveTrailer(_, _)
RemoveTrailer(trailers, key) ==
  IF trailers = <<>> THEN <<>>
  ELSE IF ToLower(trailers[1].Key) = ToLower(key) THEN RemoveTrailer(Tail(trailers), key)
  ELSE <<trailers[1]>> \o RemoveTrailer(Tail(trailers), key)

\* ------------------------------------------------------------------------
\* package forge: the parent trailer rewritten through the parser
\* ------------------------------------------------------------------------
ParentTrailerKey == <<"fp">>

\* the backward loop of splitDescriptionAndTrailers from lines[i] down:
\* the number of lines it counts as trailer lines
RECURSIVE CountTrailerLines(_, _, _, _)
CountTrailerLines(lines, i, trailerLineCount, inTrailer) ==
  IF i = 0 THEN trailerLineCount
  ELSE IF trailerRegex(lines[i]) /= <<>>
    THEN CountTrailerLines(lines, i - 1, trailerLineCount + 1, TRUE)
  ELSE IF inTrailer /\ HasPrefix(lines[i], <<SP>>)
    THEN CountTrailerLines(lines, i - 1, trailerLineCount + 1, inTrailer)
  ELSE IF TrimSpace(lines[i]) = <<>> /\ inTrailer THEN trailerLineCount
  ELSE IF inTrailer THEN trailerLineCount
  ELSE CountTrailerLines(lines, i - 1, trailerLineCount, inTrailer)

\* splitDescriptionAndTrailers: (body, trailers, hasTrailers)
splitDescriptionAndTrailers(description) ==
  LET trailers == ParseDescriptionTrailers(description)
      trimmed == TrimRight(description, WhiteSpace)
      lines == Split(trimmed)
      count == CountTrailerLines(lines, Len(lines), 0, FALSE)
      bodyLineCount == IF Len(lines) - count < 0 THEN 0 ELSE Len(lines) - count
  IN IF Len(trailers) = 0
       THEN [body |-> trimmed, trailers |-> <<>>, hasTrailers |-> FALSE]
     ELSE IF trimmed = <<>>
       THEN [body |-> <<>>, trailers |-> trailers, hasTrailers |-> TRUE]
     ELSE [body |-> TrimRight(Join(SubSeq(lines, 1, bodyLineCount)), WhiteSpace),
           trailers |-> trailers, hasTrailers |-> TRUE]

UpdateParentTrailer(description, parentID) ==
  LET sp == splitDescriptionAndTrailers(description)
      newTrailers == SetTrailer(sp.trailers, ParentTrailerKey, parentID)
  IN IF sp.body = <<>> /\ ~sp.hasTrailers
       THEN FormatTrailer([Key |-> ParentTrailerKey, Value |-> parentID]) \o <<NL>>
     ELSE IF sp.body = <<>> THEN FormatTrailers(newTrailers) \o <<NL>>
     ELSE sp.body \o <<NL, NL>> \o FormatTrailers(newTrailers) \o <<NL>>

RemoveParentTrailer(description) ==
  LET sp == splitDescriptionAndTrailers(description)
      newTrailers == RemoveTrailer(sp.trailers, ParentTrailerKey)
  IN IF ~sp.hasTrailers THEN description
     ELSE IF Len(newTrailers) = 0
       THEN (IF sp.body = <<>> THEN <<NL>> ELSE sp.body \o <<NL>>)
     ELSE IF sp.body = <<>> THEN FormatTrailers(newTrailers) \o <<NL>>
     ELSE sp.body \o <<NL, NL>> \o FormatTrailers(newTrailers) \o <<NL>>

\* ------------------------------------------------------------------------
\* State
\* ------------------------------------------------------------------------
VARIABLES
  command,  \* what this process runs: "upload", "submit", "open", or "trailers"
            \* for a direct call of a trailer function
  tcall,    \* direct calls: the function called last (fn) with its first argument
            \* (arg), key argument (key), id or value argument (id) and result
            \* (out), the text the caller
            \* started from (orig) and the calls made before (prev)
  repo,     \* the jj repository: change id -> its current revision
  revset,   \* the ids the caller's revset resolves to, child first
  up,       \* the running Upload call: position, locals, result, error
  ucmds,    \* external commands issued by the current Upload call, in order
  uhist,    \* summaries of the Upload calls that have returned
  faults,   \* external commands that have failed so far
  srevset,      \* Submit: the revisions the caller's revset resolves to, child first
  remoteHeads,  \* Submit: the revisions at the branch on the remote itself
  trackedHeads, \* Submit: the revisions at "<branch>@<remote>" as of the last fetch
  bookmark,     \* Submit: the target of the local bookmark <branch>
  sub,          \* the running Submit call: position, locals, result, error
  slog,         \* Submit: commands issued by the current call and writer moves, in order
  shist,        \* summaries of the Submit calls that have returned
  writerMoves,  \* times another writer has moved the remote branch
  opn,            \* the running review Open call: position, locals, result, error
  reviewRecords,  \* the review records stored in the config key forge.reviews
  forgeReviews,   \* the reviews the forge holds, in the order of their numbers
  ocalls,         \* external calls made by the current Open call, in order
  rcall           \* the last call of the review-record store and what it did

ovars == <<opn, reviewRecords, forgeReviews, ocalls, rcall>>
uvars == <<command, tcall, repo, revset, up, ucmds, uhist, ovars>>
svars == <<command, tcall, srevset, remoteHeads, trackedHeads, bookmark, sub, slog, shist,
           writerMoves, ovars>>

\* ------------------------------------------------------------------------
\* The repository as the external tool presents it
\* ------------------------------------------------------------------------
Remote == "og"
OtherRemote == "origin"
Absent == <<"absent">>

\* the remote pointer "<remote>/push-<id>"
PushBookmark(remote, id) == <<remote, "/push-", id>>

StackIds == <<"a", "b">>
Ids == {"r", "p"} \cup {StackIds[i] : i \in 1..Len(StackIds)}

D_plain == <<"x", NL>>
D_parent_a == <<"x", NL, NL, "fp", COLON, SP, "a", NL>>

DescPool ==
  {D_plain, D_parent_a, <<"x", NL, NL, "fp", COLON, SP, "r", NL>>, <<>>, <<"x">>,
   <<"x", NL, "k", COLON, SP, "v", NL>>}

RECURSIVE Ancestors(_, _)
Ancestors(rp, id) ==
  LET ps == {rp[id].Parents[i] : i \in 1..Len(rp[id].Parents)}
  IN ps \cup UNION {Ancestors(rp, q) : q \in ps}

Descendants(rp, id) == {x \in DOMAIN rp : id \in Ancestors(rp, x)}

\* client.Revs: one Rev per id, in the order the tool lists them
Revs(rp, ids) ==
  [i \in 1..Len(ids) |->
     [ID |-> ids[i], IsMutable |-> rp[ids[i]].IsMutable, IsEmpty |-> rp[ids[i]].IsEmpty,
      Description |-> rp[ids[i]].Description, Parents |-> rp[ids[i]].Parents,
      RemoteBookmarks |-> rp[ids[i]].RemoteBookmarks]]

SeqToSet(s) == {s[i] : i \in 1..Len(s)}

RECURSIVE SetToSeq(_)
SetToSeq(S) ==
  IF S = {} THEN <<>>
  ELSE LET x == CHOOSE y \in S : TRUE IN <<x>> \o SetToSeq(S \ {x})

\* the revset "parents(R)~(R)"
ParentRevset(rp, ids) ==
  SetToSeq((UNION {SeqToSet(rp[x].Parents) : x \in SeqToSet(ids)}) \ SeqToSet(ids))

\* "jj describe <id> -m <d>": the change is rewritten, and so is every
\* descendant; a remote pointer stays on the commit it was pushed as
Describe(rp, id, d) ==
  [x \in DOMAIN rp |->
     IF x = id THEN [rp[x] EXCEPT !.Description = d, !.RemoteBookmarks = {}]
     ELSE IF x \in Descendants(rp, id) THEN [rp[x] EXCEPT !.RemoteBookmarks = {}]
     ELSE rp[x]]

\* "jj git push --change <id> --remote <remote> --allow-new"
PushChange(rp, id, remote) ==
  [rp EXCEPT ![id].RemoteBookmarks = @ \cup {PushBookmark(remote, id)},
             ![id].OnRemote = rp[id].Description]

\* ------------------------------------------------------------------------
\* package change: Upload
\* ------------------------------------------------------------------------
Nil == [kind |-> "nil"]

UploadResult ==
  [Pushed |-> 0, Skipped |-> 0, SkippedEmpty |-> 0, SkippedAnonymous |-> 0,
   SkippedSynced |-> 0, TrailersUpdated |-> 0]

UploadIdle ==
  [pc |-> "idle", stack |-> <<>>, revmap |-> <<>>, idx |-> 0,
   result |-> UploadResult, ret |-> Nil, err |-> Nil]

\* fmt.Errorf("...: %w", err) around a failed external command
CommandError(what) == [kind |-> "command", what |-> what, wraps |-> TRUE]

\* fmt.Errorf("missing parent %s for %s", ...)
MissingParentError(pID, id) == [kind |-> "missing parent", what |-> <<pID, id>>, wraps |-> FALSE]

\* revmap: for _, rev := range slices.Concat(stack, pstack) { revmap[rev.ID] = rev }
BuildRevmap(revs) ==
  [id \in {revs[i].ID : i \in 1..Len(revs)} |->
     revs[CHOOSE i \in 1..Len(revs) :
            revs[i].ID = id /\ \A j \in (i + 1)..Len(revs) : revs[j].ID /= id]]

\* the loop over rev.Parents: the first declared parent that is mutable,
\* "" when there is none; missing names a parent absent from revmap that the
\* loop met before it stopped
RECURSIVE MutableParent(_, _, _)
MutableParent(parents, revmap, i) ==
  IF i > Len(parents) THEN [missing |-> "", id |-> ""]
  ELSE IF parents[i] \notin DOMAIN revmap THEN [missing |-> parents[i], id |-> ""]
  ELSE IF revmap[parents[i]].IsMutable THEN [missing |-> "", id |-> revmap[parents[i]].ID]
  ELSE MutableParent(parents, revmap, i + 1)

NewDescription(rev, revmap) ==
  LET mp == MutableParent(rev.Parents, revmap, 1)
  IN IF mp.id /= "" THEN UpdateForgeParent(rev.Description, <<mp.id>>)
     ELSE RemoveForgeParent(rev.Description)

DescriptionChanged(rev, revmap) == NewDescription(rev, revmap) /= rev.Description

IsSynced(rev, remote) == PushBookmark(remote, rev.ID) \in rev.RemoteBookmarks

\* variant: a change without content diff is not skipped
Step_NoEmptySkip(rev, revmap, remote) ==
  IF TrimSpace(rev.Description) = <<>> THEN "anonymous"
  ELSE IF MutableParent(rev.Parents, revmap, 1).missing /= "" THEN "missing"
  ELSE IF DescriptionChanged(rev, revmap) THEN "describe"
  ELSE IF IsSynced(rev, remote) THEN "synced"
  ELSE "push"

\* what one iteration of the loop over the stack does with rev
Step(rev, revmap, remote) ==
  IF rev.IsEmpty THEN "empty"
  ELSE IF TrimSpace(rev.Description) = <<>> THEN "anonymous"
  ELSE IF MutableParent(rev.Parents, revmap, 1).missing /= "" THEN "missing"
  ELSE IF DescriptionChanged(rev, revmap) THEN "describe"
  ELSE IF IsSynced(rev, remote) THEN "synced"
  ELSE "push"

CurRev == up.stack[up.idx]

\* variant: the marker of another remote is taken for the marker of remote
CurStep_OtherRemote == Step(CurRev, up.revmap, OtherRemote)

CurStep == Step(CurRev, up.revmap, Remote)

UCmd(op, id, ok) == [op |-> op, id |-> id, ok |-> ok]

CanFail == faults < MaxFaults

Fail(what) ==
  /\ CanFail
  /\ faults' = faults + 1
  /\ up' = [up EXCEPT !.pc = "failed", !.ret = Nil, !.err = CommandError(what)]

\* variant: the stack is handled in the order the query returns it
UploadRevs_NoReverse ==
  /\ command = "upload"
  /\ up.pc \in {"idle", "done", "failed"}
  /\ Len(uhist) + (IF up.pc = "idle" THEN 0 ELSE 1) < MaxRuns
  /\ uhist' = IF up.pc = "idle" THEN uhist
              ELSE Append(uhist, [ret |-> up.ret, err |-> up.err, cmds |-> ucmds])
  /\ \/ /\ CanFail
        /\ faults' = faults + 1
        /\ up' = [UploadIdle EXCEPT !.pc = "failed", !.err = CommandError("get stack")]
     \/ /\ LET stack == Revs(repo, revset)
           IN up' = IF Len(stack) = 0
                      THEN [UploadIdle EXCEPT !.pc = "done", !.ret = UploadResult]
                      ELSE [UploadIdle EXCEPT !.pc = "parents", !.stack = stack]
        /\ UNCHANGED faults
  /\ ucmds' = <<UCmd("revs", "revset", faults' = faults)>>
  /\ UNCHANGED <<repo, revset>>
  /\ UNCHANGED svars

\* variant: an empty stack is not returned at once
UploadRevs_NoEmptyCheck ==
  /\ command = "upload"
  /\ up.pc \in {"idle", "done", "failed"}
  /\ Len(uhist) + (IF up.pc = "idle" THEN 0 ELSE 1) < MaxRuns
  /\ uhist' = IF up.pc = "idle" THEN uhist
              ELSE Append(uhist, [ret |-> up.ret, err |-> up.err, cmds |-> ucmds])
  /\ \/ /\ CanFail
        /\ faults' = faults + 1
        /\ up' = [UploadIdle EXCEPT !.pc = "failed", !.err = CommandError("get stack")]
     \/ /\ up' = [UploadIdle EXCEPT !.pc = "parents", !.stack = Reverse(Revs(repo, revset))]
        /\ UNCHANGED faults
  /\ ucmds' = <<UCmd("revs", "revset", faults' = faults)>>
  /\ UNCHANGED <<repo, revset>>
  /\ UNCHANGED svars

\* stack, err := client.Revs(ctx, revset); slices.Reverse(stack)
UploadRevs ==
  /\ command = "upload"
  /\ up.pc \in {"idle", "done", "failed"}
  /\ Len(uhist) + (IF up.pc = "idle" THEN 0 ELSE 1) < MaxRuns
  /\ uhist' = IF up.pc = "idle" THEN uhist
              ELSE Append(uhist, [ret |-> up.ret, err |-> up.err, cmds |-> ucmds])
  /\ \/ /\ CanFail
        /\ faults' = faults + 1
        /\ up' = [UploadIdle EXCEPT !.pc = "failed", !.err = CommandError("get stack")]
     \/ /\ LET stack == Reverse(Revs(repo, revset))
           IN up' = IF Len(stack) = 0
                      THEN [UploadIdle EXCEPT !.pc = "done", !.ret = UploadResult]
                      ELSE [UploadIdle EXCEPT !.pc = "parents", !.stack = stack]
        /\ UNCHANGED faults
  /\ ucmds' = <<UCmd("revs", "revset", faults' = faults)>>
  /\ UNCHANGED <<repo, revset>>
  /\ UNCHANGED svars

\* pstack, err := client.Revs(ctx, "parents(revset)~(revset)"), and revmap
UploadParentRevs ==
  /\ up.pc = "parents"
  /\ \/ Fail("get parent stack")
     \/ /\ LET pstack == Revs(repo, ParentRevset(repo, revset))
           IN up' = [up EXCEPT !.pc = "loop", !.idx = 1,
                               !.revmap = BuildRevmap(up.stack \o pstack)]
        /\ UNCHANGED faults
  /\ ucmds' = Append(ucmds, UCmd("revs", "parents", faults' = faults))
  /\ UNCHANGED <<repo, revset, uhist>>
  /\ UNCHANGED svars

\* variant: a synced change is counted in SkippedSynced but not in Skipped
UploadSkip_NoTotal ==
  /\ up.pc = "loop" /\ up.idx <= Len(up.stack)
  /\ CurStep \in {"empty", "anonymous", "synced", "missing"}
  /\ up' = IF CurStep = "missing"
             THEN [up EXCEPT !.pc = "failed", !.ret = Nil,
                             !.err = MissingParentError(
                                   MutableParent(CurRev.Parents, up.revmap, 1).missing, CurRev.ID)]
             ELSE [up EXCEPT !.idx = @ + 1,
                      !.result.Skipped = @ + (IF CurStep = "synced" THEN 0 ELSE 1),
                      !.result.SkippedEmpty = @ + (IF CurStep = "empty" THEN 1 ELSE 0),
                      !.result.SkippedAnonymous = @ + (IF CurStep = "anonymous" THEN 1 ELSE 0),
                      !.result.SkippedSynced = @ + (IF CurStep = "synced" THEN 1 ELSE 0)]
  /\ UNCHANGED <<repo, revset, ucmds, uhist, faults>>
  /\ UNCHANGED svars

\* an iteration that issues no command: an empty, anonymous or synced
\* change is counted and skipped, a missing parent ends the call
UploadSkip ==
  /\ up.pc = "loop" /\ up.idx <= Len(up.stack)
  /\ CurStep \in {"empty", "anonymous", "synced", "missing"}
  /\ up' = IF CurStep = "missing"
             THEN [up EXCEPT !.pc = "failed", !.ret = Nil,
                             !.err = MissingParentError(
                                   MutableParent(CurRev.Parents, up.revmap, 1).missing, CurRev.ID)]
             ELSE [up EXCEPT !.idx = @ + 1,
                      !.result.Skipped = @ + 1,
                      !.result.SkippedEmpty = @ + (IF CurStep = "empty" THEN 1 ELSE 0),
                      !.result.SkippedAnonymous = @ + (IF CurStep = "anonymous" THEN 1 ELSE 0),
                      !.result.SkippedSynced = @ + (IF CurStep = "synced" THEN 1 ELSE 0)]
  /\ UNCHANGED <<repo, revset, ucmds, uhist, faults>>
  /\ UNCHANGED svars

\* variant: a change whose description was rewritten is not pushed
UploadDescribe_NoPush ==
  /\ up.pc = "loop" /\ up.idx <= Len(up.stack)
  /\ CurStep = "describe"
  /\ \/ /\ Fail("update trailers")
        /\ UNCHANGED repo
     \/ /\ repo' = Describe(repo, CurRev.ID, NewDescription(CurRev, up.revmap))
        /\ up' = [up EXCEPT !.idx = @ + 1, !.result.TrailersUpdated = @ + 1]
        /\ UNCHANGED faults
  /\ ucmds' = Append(ucmds, UCmd("describe", CurRev.ID, faults' = faults))
  /\ UNCHANGED <<revset, uhist>>
  /\ UNCHANGED svars

\* client.Run(ctx, "describe", rev.ID, "--no-edit", "-m", newDescription)
UploadDescribe ==
  /\ up.pc = "loop" /\ up.idx <= Len(up.stack)
  /\ CurStep = "describe"
  /\ \/ /\ Fail("update trailers")
        /\ UNCHANGED repo
     \/ /\ repo' = Describe(repo, CurRev.ID, NewDescription(CurRev, up.revmap))
        /\ up' = [up EXCEPT !.pc = "push", !.result.TrailersUpdated = @ + 1]
        /\ UNCHANGED faults
  /\ ucmds' = Append(ucmds, UCmd("describe", CurRev.ID, faults' = faults))
  /\ UNCHANGED <<revset, uhist>>
  /\ UNCHANGED svars

\* variant: a failed push is tried again
UploadPush_Retry ==
  /\ \/ up.pc = "push"
     \/ up.pc = "loop" /\ up.idx <= Len(up.stack) /\ CurStep = "push"
  /\ \/ /\ CanFail
        /\ faults' = faults + 1
        /\ UNCHANGED <<up, repo>>
     \/ /\ repo' = PushChange(repo, CurRev.ID, Remote)
        /\ up' = [up EXCEPT !.pc = "loop", !.idx = @ + 1, !.result.Pushed = @ + 1]
        /\ UNCHANGED faults
  /\ ucmds' = Append(ucmds, UCmd("push", CurRev.ID, faults' = faults))
  /\ UNCHANGED <<revset, uhist>>
  /\ UNCHANGED svars

\* client.Run(ctx, "git", "push", "--change", rev.ID, "--remote", remote, "--allow-new")
UploadPush ==
  /\ \/ up.pc = "push"
     \/ up.pc = "loop" /\ up.idx <= Len(up.stack) /\ CurStep = "push"
  /\ \/ /\ Fail("push")
        /\ UNCHANGED repo
     \/ /\ repo' = PushChange(repo, CurRev.ID, Remote)
        /\ up' = [up EXCEPT !.pc = "loop", !.idx = @ + 1, !.result.Pushed = @ + 1]
        /\ UNCHANGED faults
  /\ ucmds' = Append(ucmds, UCmd("push", CurRev.ID, faults' = faults))
  /\ UNCHANGED <<revset, uhist>>
  /\ UNCHANGED svars

\* return result, nil
UploadReturn ==
  /\ up.pc = "loop" /\ up.idx > Len(up.stack)
  /\ up' = [up EXCEPT !.pc = "done", !.ret = up.result]
  /\ UNCHANGED <<repo, revset, ucmds, uhist, faults>>
  /\ UNCHANGED svars

\* ------------------------------------------------------------------------
\* package change: Submit
\* ------------------------------------------------------------------------
SubmitResult == [Submitted |-> 0]

SubmitIdle ==
  [pc |-> "idle", revs |-> <<>>, revmap |-> {}, idx |-> 0, currentRemoteHead |-> "",
   result |-> SubmitResult, ret |-> Nil, err |-> Nil]

\* fmt.Errorf("expected exactly one revision at %s, got %d", ...)
HeadCountError(n) == [kind |-> "head count", what |-> n, wraps |-> FALSE]

\* the two "validation failed" errors, with the position i+1 in the stack
ValidationError(reason, id, position) ==
  [kind |-> "validation", what |-> <<reason, id, position>>, wraps |-> FALSE]

\* fmt.Errorf("remote head verification failed: expected %s at %s, but found %s...")
RemoteStateError(expected, found) ==
  [kind |-> "remote state", what |-> <<expected, found>>, wraps |-> FALSE]

TheOne(S) == CHOOSE x \in S : TRUE

\* variant: the error gives the index i of the change, not its position i+1
RECURSIVE Validate_ZeroBased(_, _, _, _)
Validate_ZeroBased(revs, revmap, i, expectedParent) ==
  IF i > Len(revs) THEN Nil
  ELSE LET rev == revs[i] IN
    IF Len(rev.Parents) > 1 THEN ValidationError("merge commit", rev.ID, i - 1)
    ELSE IF Len(rev.Parents) /= 1 \/ rev.Parents[1] /= expectedParent
      THEN ValidationError("not a direct child", rev.ID, i - 1)
    ELSE IF expectedParent \notin revmap THEN MissingParentError(expectedParent, rev.ID)
    ELSE Validate_ZeroBased(revs, revmap, i + 1, rev.ID)

\* PHASE 3: the error of the first change that fails a check, Nil when the
\* whole stack passes
RECURSIVE Validate(_, _, _, _)
Validate(revs, revmap, i, expectedParent) ==
  IF i > Len(revs) THEN Nil
  ELSE LET rev == revs[i] IN
    IF Len(rev.Parents) > 1 THEN ValidationError("merge commit", rev.ID, i)
    ELSE IF Len(rev.Parents) /= 1 \/ rev.Parents[1] /= expectedParent
      THEN ValidationError("not a direct child", rev.ID, i)
    ELSE IF expectedParent \notin revmap THEN MissingParentError(expectedParent, rev.ID)
    ELSE Validate(revs, revmap, i + 1, rev.ID)

SubmitFail(what) ==
  /\ CanFail
  /\ faults' = faults + 1
  /\ sub' = [sub EXCEPT !.pc = "failed", !.ret = Nil, !.err = CommandError(what)]

\* log entries: an external command with its outcome, and for a query of the
\* remote bookmark the revisions it returned
Cmd(op, id, ok) == [op |-> op, id |-> id, ok |-> ok, seen |-> {}]
Query(op, ok, seen) == [op |-> op, id |-> "", ok |-> ok, seen |-> seen]

\* PHASE 1: client.Run(ctx, "git", "fetch", "--remote", remote)
SubmitFetch ==
  /\ command = "submit"
  /\ sub.pc \in {"idle", "done", "failed"}
  /\ Len(shist) + (IF sub.pc = "idle" THEN 0 ELSE 1) < MaxRuns
  /\ shist' = IF sub.pc = "idle" THEN shist
              ELSE Append(shist, [ret |-> sub.ret, err |-> sub.err, log |-> slog])
  /\ \/ /\ CanFail
        /\ faults' = faults + 1
        /\ sub' = [SubmitIdle EXCEPT !.pc = "failed", !.err = CommandError("initial fetch")]
        /\ UNCHANGED trackedHeads
     \/ /\ trackedHeads' = remoteHeads
        /\ sub' = [SubmitIdle EXCEPT !.pc = "head"]
        /\ UNCHANGED faults
  /\ slog' = <<Cmd("fetch", "", faults' = faults)>>
  /\ UNCHANGED <<srevset, remoteHeads, bookmark, writerMoves>>
  /\ UNCHANGED uvars

\* variant: with several revisions at the remote bookmark one of them is used
SubmitRemoteHead_AnyCount ==
  /\ sub.pc = "head"
  /\ \/ /\ SubmitFail("querying remote bookmark")
        /\ slog' = Append(slog, Query("head", FALSE, {}))
     \/ /\ slog' = Append(slog, Query("head", TRUE, trackedHeads))
        /\ sub' = IF Cardinality(trackedHeads) = 0
                    THEN [sub EXCEPT !.pc = "failed", !.ret = Nil,
                                     !.err = HeadCountError(Cardinality(trackedHeads))]
                    ELSE [sub EXCEPT !.pc = "revs", !.currentRemoteHead = TheOne(trackedHeads)]
        /\ UNCHANGED faults
  /\ UNCHANGED <<srevset, remoteHeads, trackedHeads, bookmark, shist, writerMoves>>
  /\ UNCHANGED uvars

\* variant: the local bookmark is taken for the remote head
SubmitRemoteHead_LocalBookmark ==
  /\ sub.pc = "head"
  /\ \/ /\ SubmitFail("querying remote bookmark")
        /\ slog' = Append(slog, Query("head", FALSE, {}))
     \/ /\ slog' = Append(slog, Query("head", TRUE, trackedHeads))
        /\ sub' = IF Cardinality(trackedHeads) /= 1
                    THEN [sub EXCEPT !.pc = "failed", !.ret = Nil,
                                     !.err = HeadCountError(Cardinality(trackedHeads))]
                    ELSE [sub EXCEPT !.pc = "revs", !.currentRemoteHead = bookmark]
        /\ UNCHANGED faults
  /\ UNCHANGED <<srevset, remoteHeads, trackedHeads, bookmark, shist, writerMoves>>
  /\ UNCHANGED uvars

\* remoteHeadRevs, err := client.Revs(ctx, remoteBookmark)
SubmitRemoteHead ==
  /\ sub.pc = "head"
  /\ \/ /\ SubmitFail("querying remote bookmark")
        /\ slog' = Append(slog, Query("head", FALSE, {}))
     \/ /\ slog' = Append(slog, Query("head", TRUE, trackedHeads))
        /\ sub' = IF Cardinality(trackedHeads) /= 1
                    THEN [sub EXCEPT !.pc = "failed", !.ret = Nil,
                                     !.err = HeadCountError(Cardinality(trackedHeads))]
                    ELSE [sub EXCEPT !.pc = "revs", !.currentRemoteHead = TheOne(trackedHeads)]
        /\ UNCHANGED faults
  /\ UNCHANGED <<srevset, remoteHeads, trackedHeads, bookmark, shist, writerMoves>>
  /\ UNCHANGED uvars

\* PHASE 2: revs, err := client.Revs(ctx, revset)
SubmitRevs ==
  /\ sub.pc = "revs"
  /\ \/ SubmitFail("getting revisions")
     \/ /\ sub' = IF Len(srevset) = 0
                    THEN [sub EXCEPT !.pc = "done", !.ret = sub.result]
                    ELSE [sub EXCEPT !.pc = "parents", !.revs = srevset]
        /\ UNCHANGED faults
  /\ slog' = Append(slog, Cmd("revs", "revset", faults' = faults))
  /\ UNCHANGED <<srevset, remoteHeads, trackedHeads, bookmark, shist, writerMoves>>
  /\ UNCHANGED uvars

\* variant: phase 3 is left out
SubmitParentRevs_NoValidation ==
  /\ sub.pc = "parents"
  /\ \/ SubmitFail("getting parent revisions")
     \/ /\ LET ids == {sub.revs[i].ID : i \in 1..Len(sub.revs)}
               parents == (UNION {SeqToSet(sub.revs[i].Parents) : i \in 1..Len(sub.revs)}) \ ids
               revmap == ids \cup parents \cup {sub.currentRemoteHead}
               revs == Reverse(sub.revs)
           IN sub' = [sub EXCEPT !.pc = "bookmark", !.idx = 1,
                                 !.revs = revs, !.revmap = revmap]
        /\ UNCHANGED faults
  /\ slog' = Append(slog, Cmd("revs", "parents", faults' = faults))
  /\ UNCHANGED <<srevset, remoteHeads, trackedHeads, bookmark, shist, writerMoves>>
  /\ UNCHANGED uvars

\* variant: the first bookmark move is issued before the stack is validated
SubmitParentRevs_MovesFirst ==
  /\ sub.pc = "parents"
  /\ \/ SubmitFail("getting parent revisions")
     \/ /\ LET ids == {sub.revs[i].ID : i \in 1..Len(sub.revs)}
               parents == (UNION {SeqToSet(sub.revs[i].Parents) : i \in 1..Len(sub.revs)}) \ ids
               revmap == ids \cup parents \cup {sub.currentRemoteHead}
               revs == Reverse(sub.revs)
               verr == Validate(revs, revmap, 1, sub.currentRemoteHead)
           IN sub' = IF verr /= Nil
                       THEN [sub EXCEPT !.pc = "failed", !.ret = Nil, !.err = verr,
                                        !.revs = revs, !.revmap = revmap]
                       ELSE [sub EXCEPT !.pc = "bookmark", !.idx = 1,
                                        !.revs = revs, !.revmap = revmap]
        /\ UNCHANGED faults
  /\ slog' = IF faults' = faults
               THEN slog \o <<Cmd("revs", "parents", TRUE),
                              Cmd("bookmark set", sub.revs[Len(sub.revs)].ID, TRUE)>>
               ELSE Append(slog, Cmd("revs", "parents", FALSE))
  /\ UNCHANGED <<srevset, remoteHeads, trackedHeads, bookmark, shist, writerMoves>>
  /\ UNCHANGED uvars

\* parents, err := client.Revs(ctx, parentRevset); revmap; slices.Reverse(revs);
\* PHASE 3
SubmitParentRevs ==
  /\ sub.pc = "parents"
  /\ \/ SubmitFail("getting parent revisions")
     \/ /\ LET ids == {sub.revs[i].ID : i \in 1..Len(sub.revs)}
               parents == (UNION {SeqToSet(sub.revs[i].Parents) : i \in 1..Len(sub.revs)}) \ ids
               revmap == ids \cup parents \cup {sub.currentRemoteHead}
               revs == Reverse(sub.revs)
               verr == Validate(revs, revmap, 1, sub.currentRemoteHead)
           IN sub' = IF verr /= Nil
                       THEN [sub EXCEPT !.pc = "failed", !.ret = Nil, !.err = verr,
                                        !.revs = revs, !.revmap = revmap]
                       ELSE [sub EXCEPT !.pc = "bookmark", !.idx = 1,
                                        !.revs = revs, !.revmap = revmap]
        /\ UNCHANGED faults
  /\ slog' = Append(slog, Cmd("revs", "parents", faults' = faults))
  /\ UNCHANGED <<srevset, remoteHeads, trackedHeads, bookmark, shist, writerMoves>>
  /\ UNCHANGED uvars

SubRev == sub.revs[sub.idx]

\* variant: the bookmark is moved to the top of the stack at once
SubmitBookmarkSet_Top ==
  /\ sub.pc = "bookmark"
  /\ \/ /\ SubmitFail("moving bookmark")
        /\ UNCHANGED bookmark
     \/ /\ bookmark' = sub.revs[Len(sub.revs)].ID
        /\ sub' = [sub EXCEPT !.pc = "push"]
        /\ UNCHANGED faults
  /\ slog' = Append(slog, Cmd("bookmark set", SubRev.ID, faults' = faults))
  /\ UNCHANGED <<srevset, remoteHeads, trackedHeads, shist, writerMoves>>
  /\ UNCHANGED uvars

\* PHASE 4: client.Run(ctx, "bookmark", "set", branch, "-r", rev.ID)
SubmitBookmarkSet ==
  /\ sub.pc = "bookmark"
  /\ \/ /\ SubmitFail("moving bookmark")
        /\ UNCHANGED bookmark
     \/ /\ bookmark' = SubRev.ID
        /\ sub' = [sub EXCEPT !.pc = "push"]
        /\ UNCHANGED faults
  /\ slog' = Append(slog, Cmd("bookmark set", SubRev.ID, faults' = faults))
  /\ UNCHANGED <<srevset, remoteHeads, trackedHeads, shist, writerMoves>>
  /\ UNCHANGED uvars

\* variant: a push is not counted in the result
SubmitPush_NoCount ==
  /\ sub.pc = "push"
  /\ \/ /\ SubmitFail("pushing")
        /\ UNCHANGED <<remoteHeads, trackedHeads>>
     \/ /\ remoteHeads' = {bookmark}
        /\ trackedHeads' = {bookmark}
        /\ sub' = [sub EXCEPT !.pc = "fetch"]
        /\ UNCHANGED faults
  /\ slog' = Append(slog, Cmd("push", SubRev.ID, faults' = faults))
  /\ UNCHANGED <<srevset, bookmark, shist, writerMoves>>
  /\ UNCHANGED uvars

\* client.Run(ctx, "git", "push", "--bookmark", branch, "--remote", remote)
SubmitPush ==
  /\ sub.pc = "push"
  /\ \/ /\ SubmitFail("pushing")
        /\ UNCHANGED <<remoteHeads, trackedHeads>>
     \/ /\ remoteHeads' = {bookmark}
        /\ trackedHeads' = {bookmark}
        /\ sub' = [sub EXCEPT !.pc = "fetch", !.result.Submitted = @ + 1]
        /\ UNCHANGED faults
  /\ slog' = Append(slog, Cmd("push", SubRev.ID, faults' = faults))
  /\ UNCHANGED <<srevset, bookmark, shist, writerMoves>>
  /\ UNCHANGED uvars

\* variant: the fetch after the push does not refresh the remote tracking ref
SubmitFetchAfterPush_Stale ==
  /\ sub.pc = "fetch"
  /\ \/ /\ SubmitFail("fetching after push")
        /\ UNCHANGED trackedHeads
     \/ /\ UNCHANGED trackedHeads
        /\ sub' = [sub EXCEPT !.pc = "verify"]
        /\ UNCHANGED faults
  /\ slog' = Append(slog, Cmd("fetch", "", faults' = faults))
  /\ UNCHANGED <<srevset, remoteHeads, bookmark, shist, writerMoves>>
  /\ UNCHANGED uvars

\* client.Run(ctx, "git", "fetch", "--remote", remote) after the push
SubmitFetchAfterPush ==
  /\ sub.pc = "fetch"
  /\ \/ /\ SubmitFail("fetching after push")
        /\ UNCHANGED trackedHeads
     \/ /\ trackedHeads' = remoteHeads
        /\ sub' = [sub EXCEPT !.pc = "verify"]
        /\ UNCHANGED faults
  /\ slog' = Append(slog, Cmd("fetch", "", faults' = faults))
  /\ UNCHANGED <<srevset, remoteHeads, bookmark, shist, writerMoves>>
  /\ UNCHANGED uvars

\* variant: the re-queried head is not compared with the change just pushed
SubmitVerify_NoCompare ==
  /\ sub.pc = "verify"
  /\ \/ /\ SubmitFail("re-querying remote bookmark after push")
        /\ slog' = Append(slog, Query("head", FALSE, {}))
     \/ /\ slog' = Append(slog, Query("head", TRUE, trackedHeads))
        /\ sub' = IF Cardinality(trackedHeads) /= 1
                    THEN [sub EXCEPT !.pc = "failed", !.ret = Nil,
                                     !.err = HeadCountError(Cardinality(trackedHeads))]
                  ELSE IF FALSE
                    THEN [sub EXCEPT !.pc = "failed", !.ret = Nil,
                                     !.err = RemoteStateError(SubRev.ID, TheOne(trackedHeads))]
                  ELSE IF sub.idx = Len(sub.revs)
                    THEN [sub EXCEPT !.pc = "done", !.ret = sub.result]
                  ELSE [sub EXCEPT !.pc = "bookmark", !.idx = @ + 1]
        /\ UNCHANGED faults
  /\ UNCHANGED <<srevset, remoteHeads, trackedHeads, bookmark, shist, writerMoves>>
  /\ UNCHANGED uvars

\* updatedHeadRevs, err := client.Revs(ctx, remoteBookmark) and the check of
\* newRemoteHead against rev.ID; after the last change, return result, nil
SubmitVerify ==
  /\ sub.pc = "verify"
  /\ \/ /\ SubmitFail("re-querying remote bookmark after push")
        /\ slog' = Append(slog, Query("head", FALSE, {}))
     \/ /\ slog' = Append(slog, Query("head", TRUE, trackedHeads))
        /\ sub' = IF Cardinality(trackedHeads) /= 1
                    THEN [sub EXCEPT !.pc = "failed", !.ret = Nil,
                                     !.err = HeadCountError(Cardinality(trackedHeads))]
                  ELSE IF TheOne(trackedHeads) /= SubRev.ID
                    THEN [sub EXCEPT !.pc = "failed", !.ret = Nil,
                                     !.err = RemoteStateError(SubRev.ID, TheOne(trackedHeads))]
                  ELSE IF sub.idx = Len(sub.revs)
                    THEN [sub EXCEPT !.pc = "done", !.ret = sub.result]
                  ELSE [sub EXCEPT !.pc = "bookmark", !.idx = @ + 1]
        /\ UNCHANGED faults
  /\ UNCHANGED <<srevset, remoteHeads, trackedHeads, bookmark, shist, writerMoves>>
  /\ UNCHANGED uvars

\* another writer pushes its own revision to the branch on the remote
WriterCommit == "w"

WriterPush ==
  /\ command = "submit"
  /\ writerMoves < MaxWriterMoves
  /\ remoteHeads' = {WriterCommit}
  /\ writerMoves' = writerMoves + 1
  /\ slog' = Append(slog, Cmd("writer", WriterCommit, TRUE))
  /\ UNCHANGED <<srevset, trackedHeads, bookmark, sub, shist, faults>>
  /\ UNCHANGED uvars

\* ------------------------------------------------------------------------
\* Upload: initial repositories and the specification
\* ------------------------------------------------------------------------
\* no trailer function is called directly while Upload or Submit runs
NoCall(d) ==
  [fn |-> "", arg |-> d, key |-> <<>>, id |-> <<>>, out |-> <<>>, orig |-> d, prev |-> <<>>]

TrailersUnused == tcall = NoCall(<<>>)

OpenIdle == [pc |-> "idle", rev |-> "", description |-> <<>>, ret |-> Nil, err |-> Nil]

\* no call of the review-record store has been made
StoreIdle ==
  [fn |-> "", rec |-> Nil, id |-> <<>>, before |-> <<>>, cmds |-> <<>>, err |-> Nil, n |-> 0]

\* the review state while no review command runs
OpenUnused ==
  /\ opn = OpenIdle /\ reviewRecords = <<>> /\ forgeReviews = <<>> /\ ocalls = <<>>
  /\ rcall = StoreIdle

SubmitUnused ==
  /\ srevset = <<>> /\ remoteHeads = {} /\ trackedHeads = {} /\ bookmark = ""
  /\ sub = SubmitIdle /\ slog = <<>> /\ shist = <<>> /\ writerMoves = 0

\* the Upload state while only Submit runs
UploadUnused ==
  /\ repo = <<>> /\ revset = <<>> /\ up = UploadIdle /\ ucmds = <<>> /\ uhist = <<>>

Bookmarks(id) == {{}, {PushBookmark(Remote, id)}, {PushBookmark(OtherRemote, id)}}

Change(parents, mutable, empty, desc, bms, id) ==
  [Parents |-> parents, IsMutable |-> mutable, IsEmpty |-> empty, Description |-> desc,
   RemoteBookmarks |-> bms,
   OnRemote |-> IF PushBookmark(Remote, id) \in bms THEN desc ELSE Absent]

ParentChoices(id) ==
  IF id = "a" THEN {<<"r">>, <<"p">>}
  ELSE {<<"a">>, <<"r", "a">>, <<"p">>, <<"a", "p">>}

InitUpload ==
  /\ command = "upload"
  /\ revset \in {<<>>, <<"a">>, <<"b", "a">>}
  /\ \E pa \in ParentChoices("a"), pb \in ParentChoices("b"),
        ea \in BOOLEAN, eb \in BOOLEAN,
        da \in DescPool, db \in DescPool,
        ba \in Bookmarks("a"), bb \in Bookmarks("b") :
       \* a change outside the revset is left as a plain unpushed change
       /\ ("a" \notin SeqToSet(revset)) => (pa = <<"r">> /\ ~ea /\ da = D_plain /\ ba = {})
       /\ ("b" \notin SeqToSet(revset)) => (pb = <<"a">> /\ ~eb /\ db = D_plain /\ bb = {})
       /\ repo = [id \in Ids |->
                    CASE id = "r" -> Change(<<>>, FALSE, FALSE, D_plain, {}, "r")
                      [] id = "p" -> Change(<<"r">>, TRUE, FALSE, D_plain, {}, "p")
                      [] id = "a" -> Change(pa, TRUE, ea, da, ba, "a")
                      [] id = "b" -> Change(pb, TRUE, eb, db, bb, "b")]
  /\ up = UploadIdle
  /\ ucmds = <<>>
  /\ uhist = <<>>
  /\ faults = 0
  /\ SubmitUnused
  /\ TrailersUnused
  /\ OpenUnused

NextUpload ==
  \/ UploadRevs
  \/ UploadParentRevs
  \/ UploadSkip
  \/ UploadDescribe
  \/ UploadPush
  \/ UploadReturn


\* another jj process rebases a change of the revset onto other parents
\* between the two queries of Upload: the change and its descendants are
\* rewritten
OtherRebase ==
  /\ command = "upload"
  /\ up.pc = "parents"
  /\ \E id \in SeqToSet(revset) :
       \E ps \in ParentChoices(id) \ {repo[id].Parents} :
         repo' = [x \in DOMAIN repo |->
                    IF x = id THEN [repo[x] EXCEPT !.Parents = ps, !.RemoteBookmarks = {}]
                    ELSE IF x \in Descendants(repo, id)
                      THEN [repo[x] EXCEPT !.RemoteBookmarks = {}]
                    ELSE repo[x]]
  /\ UNCHANGED <<revset, up, ucmds, uhist, faults>>
  /\ UNCHANGED svars

NextUploadConcurrent == NextUpload \/ OtherRebase

vars == <<command, tcall, repo, revset, up, ucmds, uhist, faults,
          srevset, remoteHeads, trackedHeads, bookmark, sub, slog, shist, writerMoves,
          opn, reviewRecords, forgeReviews, ocalls, rcall>>

SpecUpload == InitUpload /\ [][NextUpload]_vars

\* ------------------------------------------------------------------------
\* Submit: initial stacks and the specification
\* ------------------------------------------------------------------------
SubmitIds == <<"s1", "s2", "s3", "s4", "s5">>
RemoteHeadCommit == "h"
OlderCommit == "o"

\* the parents a change at position i (parent first) may declare
SubmitParentChoices(i) ==
  LET prev == IF i = 1 THEN RemoteHeadCommit ELSE SubmitIds[i - 1]
  IN {<<prev>>, <<OlderCommit>>, <<prev, OlderCommit>>, <<>>}

InitSubmit ==
  /\ command = "submit"
  /\ \E n \in 0..MaxSubmitStack :
       \E ps \in [1..n -> UNION {SubmitParentChoices(i) : i \in 1..n}] :
         /\ \A i \in 1..n : ps[i] \in SubmitParentChoices(i)
         /\ srevset = Reverse([i \in 1..n |-> [ID |-> SubmitIds[i], Parents |-> ps[i]]])
  /\ remoteHeads \in {{RemoteHeadCommit}, {}, {RemoteHeadCommit, WriterCommit}}
  /\ trackedHeads = remoteHeads
  /\ bookmark = RemoteHeadCommit
  /\ sub = SubmitIdle
  /\ slog = <<>>
  /\ shist = <<>>
  /\ writerMoves = 0
  /\ faults = 0
  /\ UploadUnused
  /\ TrailersUnused
  /\ OpenUnused

NextSubmit ==
  \/ SubmitFetch
  \/ SubmitRemoteHead
  \/ SubmitRevs
  \/ SubmitParentRevs
  \/ SubmitBookmarkSet
  \/ SubmitPush
  \/ SubmitFetchAfterPush
  \/ SubmitVerify
  \/ WriterPush

SpecSubmit == InitSubmit /\ [][NextSubmit]_vars

\* ------------------------------------------------------------------------
\* Trailer functions called directly: inputs and the specification
\* ------------------------------------------------------------------------
L_trailer == <<"k", COLON, SP, "v">>
L_sob == <<"sob", COLON, SP, "v">>
L_cherry == <<"(cp", "x">>
L_blank == <<>>
L_space == <<SP>>
L_text == <<"x">>
L_other == <<"v">>
L_continuation == <<SP, "v">>
L_parent == <<"fp", COLON, SP, "a">>

LineKinds ==
  {L_trailer, L_sob, L_cherry, L_blank, L_space, L_text, L_other, L_continuation, L_parent}

\* texts of at most MaxLines lines, with and without a final newline
TrailerInputs ==
  LET texts == {Join(ls) : ls \in UNION {[1..n -> LineKinds] : n \in 0..MaxLines}}
  IN texts \cup {t \o <<NL>> : t \in texts}

pvars == <<command, repo, revset, up, ucmds, uhist, faults,
           srevset, remoteHeads, trackedHeads, bookmark, sub, slog, shist, writerMoves,
           ovars>>

InitTrailers ==
  /\ command = "trailers"
  /\ \E d \in TrailerInputs : tcall = NoCall(d)
  /\ faults = 0
  /\ UploadUnused
  /\ SubmitUnused
  /\ OpenUnused

\* the ids a caller passes as parent id
ParentIds == {<<"a">>, <<"b">>}

\* the text the next call is given: the caller's text, or the text the
\* previous call returned
CanCall ==
  /\ command = "trailers"
  /\ tcall.fn \in {"", "UpdateParentTrailer", "RemoveParentTrailer"}
  /\ Len(tcall.prev) + (IF tcall.fn = "" THEN 0 ELSE 1) < MaxCalls

CurrentText == IF tcall.fn = "" THEN tcall.arg ELSE tcall.out

Called(fn, id, out) ==
  [fn |-> fn, arg |-> CurrentText, key |-> <<>>, id |-> id, out |-> out,
   orig |-> tcall.orig,
   prev |-> IF tcall.fn = "" THEN <<>>
            ELSE Append(tcall.prev, [fn |-> tcall.fn, id |-> tcall.id])]

\* jj.ParseDescriptionTrailers(description)
CallParseDescriptionTrailers ==
  /\ CanCall
  /\ tcall' = Called("ParseDescriptionTrailers", <<>>, ParseDescriptionTrailers(CurrentText))
  /\ UNCHANGED pvars

\* parseTrailersImpl(body), called from within package jj on the caller's text
CallParseTrailersImpl ==
  /\ CanCall /\ tcall.fn = ""
  /\ tcall' = Called("parseTrailersImpl", <<>>, parseTrailersImpl(CurrentText))
  /\ UNCHANGED pvars

\* jj.ParseTrailers(text)
CallParseTrailers ==
  /\ CanCall
  /\ tcall' = Called("ParseTrailers", <<>>, ParseTrailers(CurrentText))
  /\ UNCHANGED pvars

\* forge.UpdateParentTrailer(description, parentID)
CallUpdateParentTrailer ==
  /\ CanCall
  /\ \E id \in ParentIds :
       tcall' = Called("UpdateParentTrailer", id, UpdateParentTrailer(CurrentText, id))
  /\ UNCHANGED pvars

\* forge.RemoveParentTrailer(description)
CallRemoveParentTrailer ==
  /\ CanCall
  /\ tcall' = Called("RemoveParentTrailer", <<>>, RemoveParentTrailer(CurrentText))
  /\ UNCHANGED pvars

\* jj.UpdateForgeParent(description, parentID), on the caller's text
CallUpdateForgeParent ==
  /\ CanCall /\ tcall.fn = ""
  /\ \E id \in ParentIds :
       tcall' = Called("UpdateForgeParent", id, UpdateForgeParent(CurrentText, id))
  /\ UNCHANGED pvars

\* jj.RemoveForgeParent(description), on the caller's text
CallRemoveForgeParent ==
  /\ CanCall /\ tcall.fn = ""
  /\ tcall' = Called("RemoveForgeParent", <<>>, RemoveForgeParent(CurrentText))
  /\ UNCHANGED pvars

\* the keys a caller passes to SetTrailer
TrailerKeys == {<<"fp">>, <<"FP">>, <<"k">>, <<"sob">>}

\* jj.SetTrailer(trailers, key, value), on the trailers the lenient parser
\* returned
CallSetTrailer ==
  /\ command = "trailers"
  /\ tcall.fn = "ParseDescriptionTrailers"
  /\ Len(tcall.prev) + 1 < MaxCalls
  /\ \E key \in TrailerKeys, value \in ParentIds :
       tcall' = [Called("SetTrailer", value, SetTrailer(tcall.out, key, value))
                   EXCEPT !.key = key]
  /\ UNCHANGED pvars

NextTrailers ==
  \/ CallParseDescriptionTrailers
  \/ CallParseTrailersImpl
  \/ CallParseTrailers
  \/ CallUpdateParentTrailer
  \/ CallRemoveParentTrailer
  \/ CallUpdateForgeParent
  \/ CallRemoveForgeParent
  \/ CallSetTrailer

SpecTrailers == InitTrailers /\ [][NextTrailers]_vars

\* ------------------------------------------------------------------------
\* package review: Open
\* ------------------------------------------------------------------------
\* everything Open leaves alone
xvars == <<command, tcall, repo, revset, up, ucmds, uhist,
           srevset, remoteHeads, trackedHeads, bookmark, sub, slog, shist, writerMoves,
           rcall>>

\* isUploaded: the remote pointer "<remote>/push-<id>" is among the change's
isUploaded(rev, id, remote) == PushBookmark(remote, id) \in rev.RemoteBookmarks

\* splitTitleBody: the first line, and the rest, both trimmed
splitTitleBody(description) ==
  LET lines == Split(TrimSpace(description))
  IN [title |-> TrimSpace(lines[1]),
      body |-> IF Len(lines) > 1 THEN TrimSpace(Join(Tail(lines))) ELSE <<>>]

ReviewRecord(changeID, forgeID, url, status) ==
  [ChangeID |-> changeID, ForgeID |-> forgeID, URL |-> url, Status |-> status]

\* FormatID: "pr/<number>"
FormatID(number) == <<"pr/", number>>

\* the URL the forge gives the review with that number
ReviewURL(number) == <<"pull/", number>>

\* the errors Open returns on its own account
OpenError(what) == [kind |-> "open", what |-> what, wraps |-> FALSE]

\* the loop over the records: the error of the first record of the change
\* whose status is open or merged, Nil when there is none
RECURSIVE ExistingReview(_, _)
ExistingReview(records, id) ==
  IF records = <<>> THEN Nil
  ELSE IF records[1].ChangeID = id /\ records[1].Status = "open"
    THEN OpenError("review already exists")
  ELSE IF records[1].ChangeID = id /\ records[1].Status = "merged"
    THEN OpenError("already merged")
  ELSE ExistingReview(Tail(records), id)

\* variant: the record is always appended
AddReviewRecord_Append(records, rec) == Append(records, rec)

\* ConfigManager.AddReviewRecord: the first record of the change replaced,
\* the record appended when there is none
AddReviewRecord(records, rec) ==
  LET hits == {i \in 1..Len(records) : records[i].ChangeID = rec.ChangeID}
  IN IF hits = {} THEN Append(records, rec)
     ELSE [records EXCEPT ![CHOOSE i \in hits : \A j \in hits : i <= j] = rec]

OCall(what, ok) == [what |-> what, ok |-> ok]

OpenFail(what) ==
  /\ CanFail
  /\ faults' = faults + 1
  /\ opn' = [opn EXCEPT !.pc = "failed", !.ret = Nil, !.err = CommandError(what)]
  /\ ocalls' = Append(ocalls, OCall(what, FALSE))

OpenRev(id) == repo[id]

\* rev, err := jjClient.Rev(ctx, params.Rev), and the two checks of the change
OpenResolve ==
  /\ command = "open"
  /\ opn.pc = "idle"
  /\ \/ OpenFail("rev")
     \/ /\ LET id == revset[1]
               rev == OpenRev(id)
           IN opn' = IF TrimSpace(rev.Description) = <<>>
                      THEN [opn EXCEPT !.pc = "failed", !.rev = id,
                                      !.err = OpenError("empty description")]
                    ELSE IF ~isUploaded(rev, id, Remote)
                      THEN [opn EXCEPT !.pc = "failed", !.rev = id,
                                      !.err = OpenError("not uploaded")]
                    ELSE [opn EXCEPT !.pc = "records", !.rev = id]
        /\ ocalls' = Append(ocalls, OCall("rev", TRUE))
        /\ UNCHANGED faults
  /\ UNCHANGED <<reviewRecords, forgeReviews>>
  /\ UNCHANGED xvars

\* records, err := configMgr.GetReviewRecords(), and the loop over the records
OpenGetReviewRecords ==
  /\ command = "open"
  /\ opn.pc = "records"
  /\ \/ OpenFail("config list")
     \/ /\ LET err == ExistingReview(reviewRecords, opn.rev)
           IN opn' = IF err /= Nil THEN [opn EXCEPT !.pc = "failed", !.err = err]
                    ELSE [opn EXCEPT !.pc = "upstream"]
        /\ ocalls' = Append(ocalls, OCall("config list", TRUE))
        /\ UNCHANGED faults
  /\ UNCHANGED <<reviewRecords, forgeReviews>>
  /\ UNCHANGED xvars

\* upstreamRemoteURL, err := jjClient.RemoteURL(ctx, params.UpstreamRemote)
OpenRemoteURL ==
  /\ command = "open"
  /\ opn.pc = "upstream"
  /\ \/ OpenFail("remote url")
     \/ /\ opn' = [opn EXCEPT !.pc = "branch"]
        /\ ocalls' = Append(ocalls, OCall("remote url", TRUE))
        /\ UNCHANGED faults
  /\ UNCHANGED <<reviewRecords, forgeReviews>>
  /\ UNCHANGED xvars

\* upstreamBranch, err := forgeClient.DefaultBranch(ctx, upstreamRemoteURL)
OpenDefaultBranch ==
  /\ command = "open"
  /\ opn.pc = "branch"
  /\ \/ OpenFail("default branch")
     \/ /\ opn' = [opn EXCEPT !.pc = "fork"]
        /\ ocalls' = Append(ocalls, OCall("default branch", TRUE))
        /\ UNCHANGED faults
  /\ UNCHANGED <<reviewRecords, forgeReviews>>
  /\ UNCHANGED xvars

\* forkRepoInfo, err := forge.GetRepoInfo(ctx, jjClient, params.ForkRemote),
\* and description := forge.RemoveParentTrailer(rev.Description)
OpenGetRepoInfo ==
  /\ command = "open"
  /\ opn.pc = "fork"
  /\ \/ OpenFail("repo info")
     \/ /\ opn' = [opn EXCEPT !.pc = "create",
                    !.description = RemoveParentTrailer(OpenRev(opn.rev).Description)]
        /\ ocalls' = Append(ocalls, OCall("repo info", TRUE))
        /\ UNCHANGED faults
  /\ UNCHANGED <<reviewRecords, forgeReviews>>
  /\ UNCHANGED xvars

\* splitTitleBody(description) and forgeClient.CreateReview
OpenCreateReview ==
  /\ command = "open"
  /\ opn.pc = "create"
  /\ \/ /\ OpenFail("create review")
        /\ UNCHANGED forgeReviews
     \/ /\ LET tb == splitTitleBody(opn.description)
               number == Len(forgeReviews) + 1
           IN /\ forgeReviews' = Append(forgeReviews,
                   [Number |-> number, Title |-> tb.title, Body |-> tb.body,
                    Head |-> PushBookmark("owner:", opn.rev), Status |-> "open"])
              /\ opn' = [opn EXCEPT !.pc = "save",
                          !.ret = [ChangeID |-> opn.rev, Number |-> number,
                                   URL |-> ReviewURL(number)]]
        /\ ocalls' = Append(ocalls, OCall("create review", TRUE))
        /\ UNCHANGED faults
  /\ UNCHANGED reviewRecords
  /\ UNCHANGED xvars

\* configMgr.AddReviewRecord(record), and the return of the result
OpenAddReviewRecord ==
  /\ command = "open"
  /\ opn.pc = "save"
  /\ \/ /\ OpenFail("save record")
        /\ UNCHANGED reviewRecords
     \/ /\ reviewRecords' = AddReviewRecord(reviewRecords,
             ReviewRecord(opn.rev, FormatID(opn.ret.Number), opn.ret.URL, "open"))
        /\ opn' = [opn EXCEPT !.pc = "done"]
        /\ ocalls' = Append(ocalls, OCall("save record", TRUE))
        /\ UNCHANGED faults
  /\ UNCHANGED forgeReviews
  /\ UNCHANGED xvars

\* the descriptions of the change Open is called for
OpenDescriptions == {<<>>, <<SP, NL>>, D_plain, D_parent_a}

\* the record the config may hold for a change: none, or one with a status
RecordsOf(id) ==
  {<<>>} \cup {<<ReviewRecord(id, FormatID(0), ReviewURL(0), st)>> : st \in {"open", "closed", "merged"}}

InitOpen ==
  /\ command = "open"
  /\ revset = <<"b">>
  /\ \E d \in OpenDescriptions, bms \in Bookmarks("b") :
       repo = [id \in {"b"} |-> Change(<<"a">>, TRUE, FALSE, d, bms, "b")]
  /\ \E ra \in RecordsOf("a"), rb \in RecordsOf("b") :
       reviewRecords \in {ra \o rb, rb \o ra}
  /\ opn = OpenIdle
  /\ forgeReviews = <<>>
  /\ ocalls = <<>>
  /\ rcall = StoreIdle
  /\ faults = 0
  /\ up = UploadIdle /\ ucmds = <<>> /\ uhist = <<>>
  /\ SubmitUnused
  /\ TrailersUnused

NextOpen ==
  \/ OpenResolve
  \/ OpenGetReviewRecords
  \/ OpenRemoteURL
  \/ OpenDefaultBranch
  \/ OpenGetRepoInfo
  \/ OpenCreateReview
  \/ OpenAddReviewRecord

SpecOpen == InitOpen /\ [][NextOpen]_vars

\* Upload while another jj process works on the same repository
\* the repositories the two-process runs start from
InitUploadConcurrent ==
  /\ InitUpload
  /\ \A id \in {"a", "b"} : repo[id].Description \in {D_plain, D_parent_a, <<>>}

SpecUploadConcurrent == InitUploadConcurrent /\ [][NextUploadConcurrent]_vars

\* ReviewRecord.String: the four fields joined with recordSep, "\n"
RecordString(r) ==
  r.ChangeID \o <<NL>> \o r.ForgeID \o <<NL>> \o r.URL \o <<NL>> \o r.Status

\* ParseReviewRecord: the record, or an error unless s has four parts
ParseReviewRecord(s) ==
  LET parts == Split(s)
  IN IF Len(parts) /= 4
       THEN [rec |-> Nil, err |-> [kind |-> "record format", what |-> s, wraps |-> FALSE]]
     ELSE [rec |-> ReviewRecord(parts[1], parts[2], parts[3], parts[4]), err |-> Nil]

\* GetReviewRecords on the strings of forge.reviews: the records, or the
\* first parse error
GetReviewRecords(reviews) ==
  LET parsed == [i \in 1..Len(reviews) |-> ParseReviewRecord(reviews[i])]
      bad == {i \in 1..Len(reviews) : parsed[i].err /= Nil}
  IN IF bad /= {}
       THEN [records |-> <<>>, err |-> parsed[CHOOSE i \in bad : \A j \in bad : i <= j].err]
     ELSE [records |-> [i \in 1..Len(reviews) |-> parsed[i].rec], err |-> Nil]

\* saveRecords: the strings written to forge.reviews
saveRecords(records) == [i \in 1..Len(records) |-> RecordString(records[i])]

\* the loop of RemoveReviewRecord: the records of the other changes
RemoveReviewRecord(records, changeID) ==
  LET keep(r) == r.ChangeID /= changeID
  IN SelectSeq(records, keep)

\* the records the callers pass
StoreRecords ==
  {ReviewRecord(id, <<"pr/", "x">>, <<"pull/", "x">>, <<st>>) :
     id \in {<<"a">>, <<"b">>}, st \in {"open", "merged"}}

\* everything the store calls leave alone
rvars == <<command, tcall, repo, revset, up, ucmds, uhist,
           srevset, remoteHeads, trackedHeads, bookmark, sub, slog, shist, writerMoves,
           opn, forgeReviews, ocalls>>

StoreCalled(fn, rec, id, cmds, err) ==
  [fn |-> fn, rec |-> rec, id |-> id, before |-> reviewRecords, cmds |-> cmds,
   err |-> err, n |-> rcall.n + 1]

\* the call fails at "config list", or at "config set" when it writes
StoreFails(fn, rec, id, writes) ==
  /\ CanFail
  /\ faults' = faults + 1
  /\ \/ rcall' = StoreCalled(fn, rec, id, <<OCall("list", FALSE)>>, CommandError("config list"))
     \/ /\ writes
        /\ rcall' = StoreCalled(fn, rec, id, <<OCall("list", TRUE), OCall("set", FALSE)>>,
                                CommandError("config set"))
  /\ UNCHANGED reviewRecords

\* ConfigManager.AddReviewRecord(rec)
CallAddReviewRecord ==
  /\ command = "records"
  /\ rcall.n < MaxStoreCalls
  /\ \E rec \in StoreRecords :
       LET got == GetReviewRecords(saveRecords(reviewRecords))
       IN \/ StoreFails("AddReviewRecord", rec, rec.ChangeID, got.err = Nil)
          \/ /\ IF got.err /= Nil
                  THEN /\ rcall' = StoreCalled("AddReviewRecord", rec, rec.ChangeID,
                                               <<OCall("list", TRUE)>>, got.err)
                       /\ UNCHANGED reviewRecords
                  ELSE /\ rcall' = StoreCalled("AddReviewRecord", rec, rec.ChangeID,
                                               <<OCall("list", TRUE), OCall("set", TRUE)>>, Nil)
                       /\ reviewRecords' =
                            GetReviewRecords(saveRecords(AddReviewRecord(got.records, rec))).records
             /\ UNCHANGED faults
  /\ UNCHANGED rvars

\* ConfigManager.RemoveReviewRecord(changeID)
CallRemoveReviewRecord ==
  /\ command = "records"
  /\ rcall.n < MaxStoreCalls
  /\ \E id \in {r.ChangeID : r \in StoreRecords} :
       LET got == GetReviewRecords(saveRecords(reviewRecords))
           nextRecords == RemoveReviewRecord(got.records, id)
           found == Len(nextRecords) /= Len(got.records)
       IN \/ StoreFails("RemoveReviewRecord", Nil, id, got.err = Nil /\ found)
          \/ /\ IF got.err /= Nil
                  THEN /\ rcall' = StoreCalled("RemoveReviewRecord", Nil, id,
                                               <<OCall("list", TRUE)>>, got.err)
                       /\ UNCHANGED reviewRecords
                ELSE IF ~found
                  THEN /\ rcall' = StoreCalled("RemoveReviewRecord", Nil, id,
                                               <<OCall("list", TRUE)>>, Nil)
                       /\ UNCHANGED reviewRecords
                  ELSE /\ rcall' = StoreCalled("RemoveReviewRecord", Nil, id,
                                               <<OCall("list", TRUE), OCall("set", TRUE)>>, Nil)
                       /\ reviewRecords' = GetReviewRecords(saveRecords(nextRecords)).records
             /\ UNCHANGED faults
  /\ UNCHANGED rvars

InitRecords ==
  /\ command = "records"
  /\ reviewRecords = <<>>
  /\ rcall = StoreIdle
  /\ opn = OpenIdle /\ forgeReviews = <<>> /\ ocalls = <<>>
  /\ faults = 0
  /\ UploadUnused
  /\ SubmitUnused
  /\ TrailersUnused

NextRecords == CallAddReviewRecord \/ CallRemoveReviewRecord

SpecRecords == InitRecords /\ [][NextRecords]_vars


\* ------------------------------------------------------------------------
\* The program: one of the subcommands, or a direct call
\* ------------------------------------------------------------------------
Init == InitUpload \/ InitSubmit \/ InitTrailers \/ InitOpen \/ InitRecords

Next == NextUpload \/ NextSubmit \/ NextTrailers \/ NextOpen \/ NextRecords

Spec == Init /\ [][Next]_vars

\* ------------------------------------------------------------------------
\* Properties of Submit
\* ------------------------------------------------------------------------
IsSubmitCmd(e) == e.op /= "writer"
IsMove(e) == e.op \in {"bookmark set", "push"}
IsBookmarkSet(e) == e.op = "bookmark set"
IsPush(e) == e.op = "push"
IsOkPush(e) == e.op = "push" /\ e.ok

SubmitCmds == SelectSeq(slog, IsSubmitCmd)

\* a successful query of the remote bookmark that follows a push and a fetch
IsRecheck(cmds, k) ==
  /\ k > 2 /\ cmds[k].op = "head" /\ cmds[k].ok
  /\ cmds[k - 1].op = "fetch" /\ cmds[k - 2].op = "push"

Finished == sub.pc \in {"done", "failed"}

\* C1: when pre-validation rejects the stack, the invocation has issued no
\* bookmark move and no push, whatever the position of the offending change
C1_ValidationBeforeMutation ==
  (sub.pc = "failed" /\ sub.err.kind = "validation") =>
    /\ \A k \in 1..Len(slog) : ~IsMove(slog[k])
    /\ sub.result.Submitted = 0

C1_Witness ==
  /\ sub.pc = "failed" /\ sub.err.kind = "validation"
  /\ sub.err.what[3] = Len(sub.revs) /\ Len(sub.revs) >= 2

\* C2: phase 4 handles the changes one at a time, parent first; the bookmark
\* move and the push of a change come right after the re-check of the previous
\* change returned that change's id; a re-check that returns another head is
\* the last command of the call, which fails with the remote-head error
C2_OneAtATimeVerified ==
  LET cmds == SubmitCmds
      sets == SelectSeq(cmds, IsBookmarkSet)
      pushes == SelectSeq(cmds, IsPush)
  IN /\ \A j \in 1..Len(sets) : j <= Len(sub.revs) /\ sets[j].id = sub.revs[j].ID
     /\ \A j \in 1..Len(pushes) : j <= Len(sub.revs) /\ pushes[j].id = sub.revs[j].ID
     /\ \A k \in 1..Len(cmds) :
          /\ IsPush(cmds[k]) => k > 1 /\ cmds[k - 1] = Cmd("bookmark set", cmds[k].id, TRUE)
          /\ (IsBookmarkSet(cmds[k]) /\ cmds[k].id /= sub.revs[1].ID) =>
               /\ IsRecheck(cmds, k - 1)
               /\ cmds[k - 3].ok
               /\ \E i \in 1..(Len(sub.revs) - 1) :
                    /\ cmds[k].id = sub.revs[i + 1].ID
                    /\ cmds[k - 3].id = sub.revs[i].ID
                    /\ cmds[k - 1].seen = {sub.revs[i].ID}
          /\ (IsBookmarkSet(cmds[k]) /\ cmds[k].id = sub.revs[1].ID) =>
               \A j \in 1..(k - 1) : ~IsMove(cmds[j])
          /\ (IsRecheck(cmds, k) /\ Cardinality(cmds[k].seen) = 1
                /\ cmds[k].seen /= {cmds[k - 2].id}) =>
               /\ k = Len(cmds)
               /\ sub.pc = "failed" /\ sub.ret = Nil
               /\ sub.err = RemoteStateError(cmds[k - 2].id, TheOne(cmds[k].seen))

C2_Witness ==
  /\ sub.pc = "failed" /\ sub.err.kind = "remote state" /\ sub.idx = 2

\* the writer moved the branch after the phase-1 query of the remote head
\* and before a re-check of phase 4
WriterInWindow ==
  \E k \in 1..Len(slog) :
    /\ slog[k].op = "writer"
    /\ \E j \in 1..(k - 1) : slog[j].op = "head" /\ slog[j].ok
    /\ \E m \in (k + 1)..Len(slog) :
         slog[m].op = "head" /\ slog[m].ok /\ \E j \in 1..(m - 1) : IsPush(slog[j])

LastCmdBefore(k) ==
  LET js == {j \in 1..(k - 1) : IsSubmitCmd(slog[j])}
  IN IF js = {} THEN 0 ELSE CHOOSE j \in js : \A i \in js : i <= j

\* the writer moved the branch right after a completed push, before the
\* fetch that follows it
WriterAfterPush(k) ==
  /\ slog[k].op = "writer"
  /\ LastCmdBefore(k) /= 0
  /\ IsOkPush(slog[LastCmdBefore(k)])

OkPushesAfter(k) == Cardinality({m \in (k + 1)..Len(slog) : IsOkPush(slog[m])})

NextRecheck(k) ==
  LET ms == {m \in (k + 1)..Len(slog) :
               slog[m].op = "head" /\ slog[m].ok /\ \E j \in 1..(m - 1) : IsPush(slog[j])}
  IN IF ms = {} THEN 0 ELSE CHOOSE m \in ms : \A i \in ms : m <= i

\* the change pushed by the latest push before position m of the log
PushedBefore(m) ==
  LET js == {j \in 1..(m - 1) : IsPush(slog[j])}
  IN slog[CHOOSE j \in js : \A i \in js : i <= j].id

C5_SubmitAdvancesAll ==
  (/\ sub.pc = "done" /\ Len(sub.revs) >= 1
   /\ \A k \in 1..Len(slog) : slog[k].op /= "writer") =>
     LET pushes == SelectSeq(slog, IsPush)
         n == Len(sub.revs)
     IN /\ [j \in 1..Len(pushes) |-> pushes[j].id] = [j \in 1..n |-> sub.revs[j].ID]
        /\ sub.ret = [Submitted |-> n]
        /\ remoteHeads = {sub.revs[n].ID}

C5_Witness ==
  /\ sub.pc = "done" /\ Len(sub.revs) = 3
  /\ \A k \in 1..Len(slog) : slog[k].op /= "writer"

\* ------------------------------------------------------------------------
\* Properties of Upload
\* ------------------------------------------------------------------------
\* a change that Upload processes: neither empty nor anonymous
Processed(rev) == ~rev.IsEmpty /\ TrimSpace(rev.Description) /= <<>>

IssuedFor(cmds, op, id) == \E k \in 1..Len(cmds) : cmds[k].op = op /\ cmds[k].id = id

IsUPush(e) == e.op = "push"

\* the Upload call before the current one, once there is one
PrevRun == uhist[Len(uhist)]

\* C6: a second Upload after a successful one pushes nothing and counts every
\* processed change as SkippedSynced
C6_SecondRunPushesNothing ==
  (up.pc = "done" /\ Len(uhist) >= 1 /\ PrevRun.err = Nil) =>
    /\ up.ret.Pushed = 0
    /\ SelectSeq(ucmds, IsUPush) = <<>>
    /\ up.ret.SkippedSynced =
         Cardinality({i \in 1..Len(up.stack) : Processed(up.stack[i])})

\* the indices of the stack whose iteration has completed
Done(i) == up.pc \in {"loop", "done"} /\ i \in 1..Len(up.stack) /\ i < up.idx

\* C7: for a processed change, a describe is issued exactly when the recomputed
\* description differs from the description read, a push exactly when it
\* differed or the marker "<remote>/push-<id>" is missing, and it is counted
\* SkippedSynced with no command exactly when neither is the case
C7_DescribePushSkip ==
  LET idxs == {i \in 1..Len(up.stack) : Done(i) /\ Processed(up.stack[i])}
      differs(i) == NewDescription(up.stack[i], up.revmap) /= up.stack[i].Description
      marked(i) == PushBookmark(Remote, up.stack[i].ID) \in up.stack[i].RemoteBookmarks
      described(i) == IssuedFor(ucmds, "describe", up.stack[i].ID)
      pushed(i) == IssuedFor(ucmds, "push", up.stack[i].ID)
  IN /\ \A i \in idxs :
          /\ described(i) <=> differs(i)
          /\ pushed(i) <=> (differs(i) \/ ~marked(i))
          /\ (~described(i) /\ ~pushed(i)) <=> (~differs(i) /\ marked(i))
     /\ (\A i \in 1..Len(up.stack) : Done(i)) =>
          /\ up.result.TrailersUpdated = Cardinality({i \in idxs : differs(i)})
          /\ up.result.Pushed = Cardinality({i \in idxs : differs(i) \/ ~marked(i)})
          /\ up.result.SkippedSynced = Cardinality({i \in idxs : ~differs(i) /\ marked(i)})

C7_Witness ==
  /\ up.pc = "done" /\ Len(up.stack) = 2
  /\ Processed(up.stack[1]) /\ Processed(up.stack[2])
  /\ up.ret.SkippedSynced = 1 /\ up.ret.TrailersUpdated = 1
  /\ \E i \in 1..2 : /\ IssuedFor(ucmds, "describe", up.stack[i].ID)
                     /\ PushBookmark(Remote, up.stack[i].ID) \in up.stack[i].RemoteBookmarks

\* the first declared parent of id that is mutable, as a sequence of at most one id
FirstMutableParent(id) ==
  LET ps == repo[id].Parents
      ms == {i \in 1..Len(ps) : repo[ps[i]].IsMutable}
  IN IF ms = {} THEN <<>> ELSE <<ps[CHOOSE i \in ms : \A j \in ms : i <= j]>>

\* the forge-parent trailer that the description of id carries
ForgeParentOf(id) == GetTrailer(ParseDescriptionTrailers(repo[id].Description), ForgeParentKey)

\* C8: after a successful Upload the description of every processed change
\* carries a forge-parent trailer naming its first mutable declared parent,
\* and no forge-parent trailer when no declared parent is mutable
C8_TrailerNamesMutableParent ==
  up.pc = "done" =>
    \A i \in 1..Len(up.stack) : Processed(up.stack[i]) =>
      LET id == up.stack[i].ID
          mp == FirstMutableParent(id)
          t == ForgeParentOf(id)
      IN IF mp = <<>> THEN t = <<>>
         ELSE t /= <<>> /\ t[1].Value = mp

\* one call ended by a failing command: the failing command is the last one
\* of its log, the result is nil and the error wraps the failure
EndsAtFirstFailure(log, pc, ret, err) ==
  \A k \in 1..Len(log) : ~log[k].ok =>
    /\ k = Len(log)
    /\ pc = "failed" /\ ret = Nil
    /\ err.kind = "command" /\ err.wraps

\* C9: in Upload and in Submit a failing command is the last command of the
\* call, the call returns a nil result and an error wrapping the failure, and
\* what was pushed before stays pushed
C9_FirstFailureIsTerminal ==
  /\ EndsAtFirstFailure(ucmds, up.pc, up.ret, up.err)
  /\ \A h \in 1..Len(uhist) :
       EndsAtFirstFailure(uhist[h].cmds, IF uhist[h].err = Nil THEN "done" ELSE "failed",
                          uhist[h].ret, uhist[h].err)
  /\ up.pc = "failed" =>
       \A k \in 1..Len(ucmds) : (ucmds[k].op = "push" /\ ucmds[k].ok) =>
         /\ PushBookmark(Remote, ucmds[k].id) \in repo[ucmds[k].id].RemoteBookmarks
         /\ repo[ucmds[k].id].OnRemote = repo[ucmds[k].id].Description
  /\ EndsAtFirstFailure(SubmitCmds, sub.pc, sub.ret, sub.err)
  /\ \A h \in 1..Len(shist) :
       EndsAtFirstFailure(SelectSeq(shist[h].log, IsSubmitCmd),
                          IF shist[h].err = Nil THEN "done" ELSE "failed",
                          shist[h].ret, shist[h].err)
  /\ (sub.pc = "failed" /\ sub.err.kind = "command") =>
       \A k \in 1..Len(slog) :
         (IsOkPush(slog[k]) /\ \A j \in (k + 1)..Len(slog) : slog[j].op \notin {"push", "writer"}) =>
           remoteHeads = {slog[k].id}

C9_Witness ==
  /\ up.pc = "failed" /\ up.err.kind = "command"
  /\ Len(ucmds) >= 4
  /\ ucmds[Len(ucmds)].op = "push" /\ ~ucmds[Len(ucmds)].ok
  /\ \E k \in 1..Len(ucmds) : ucmds[k].op = "push" /\ ucmds[k].ok
  /\ \E k \in 1..Len(ucmds) : ucmds[k].op = "describe" /\ ucmds[k].ok

C9_WitnessSubmit ==
  /\ sub.pc = "failed" /\ sub.err.kind = "command"
  /\ \E k \in 1..Len(slog) : IsOkPush(slog[k])
  /\ slog[Len(slog)].op = "push" /\ ~slog[Len(slog)].ok

SubmitStack == Reverse(srevset)

\* S with the declared parents of its stack changes, d generations up
RECURSIVE Closure(_, _)
Closure(S, d) ==
  IF d = 0 THEN S
  ELSE Closure(S \cup UNION {SeqToSet(srevset[i].Parents) :
                               i \in {j \in 1..Len(srevset) : srevset[j].ID \in S}}, d - 1)

\* positions of the stack changes that the remote branch holds
Present ==
  {i \in 1..Len(SubmitStack) : SubmitStack[i].ID \in Closure(remoteHeads, Len(srevset))}

\* the command logs of all Submit calls so far
AllLogs == {slog} \cup {shist[h].log : h \in 1..Len(shist)}

\* a query of the remote bookmark returned exactly id
HeadSeen(id) ==
  \E log \in AllLogs : \E m \in 1..Len(log) :
    log[m].op = "head" /\ log[m].ok /\ log[m].seen = {id}

\* a call was cut short after it pushed id and before it had re-queried the head
CutAfterPush(id) ==
  \E log \in AllLogs : \E j \in 1..(Len(log) - 1) :
    /\ IsOkPush(log[j]) /\ log[j].id = id
    /\ \A m \in (j + 1)..Len(log) : log[m].op \in {"fetch", "head"}
    /\ ~log[Len(log)].ok

Cancelled == sub.pc = "failed" /\ sub.err.kind = "command" /\ writerMoves = 0

\* C11 as stated: after a cancellation the remote holds the first k changes
\* and every one of them was verified by a re-query of the remote head
C11_Original ==
  Cancelled =>
    \E k \in 0..Len(SubmitStack) :
      /\ Present = 1..k
      /\ \A i \in Present : HeadSeen(SubmitStack[i].ID)

\* C11 (amended): after a cancellation without another writer the remote
\* holds exactly the first k changes of the stack for some k; each of the
\* first k-1 was seen as the remote head by a query, and the k-th was seen so
\* unless the call that pushed it was cut short before its re-query
C11_PrefixState ==
  Cancelled =>
    \E k \in 0..Len(SubmitStack) :
      /\ Present = 1..k
      /\ \A i \in Present :
           \/ HeadSeen(SubmitStack[i].ID)
           \/ i = k /\ CutAfterPush(SubmitStack[i].ID)

C11_Witness ==
  /\ Cancelled
  /\ Present = {1, 2}
  /\ HeadSeen(SubmitStack[1].ID)
  /\ ~HeadSeen(SubmitStack[2].ID)
  /\ CutAfterPush(SubmitStack[2].ID)

\* the remote head that the phase-1 query of the current call returned
HeadRead == TheOne(SubmitCmds[2].seen)

\* phase 3 has run in the current call
Prevalidated ==
  \E k \in 1..Len(slog) : slog[k].op = "revs" /\ slog[k].id = "parents" /\ slog[k].ok

\* every change has exactly one parent, the previous change of the stack or,
\* for the first change, the remote head read in phase 1
Linear ==
  \A i \in 1..Len(SubmitStack) :
    /\ Len(SubmitStack[i].Parents) = 1
    /\ SubmitStack[i].Parents[1] = (IF i = 1 THEN HeadRead ELSE SubmitStack[i - 1].ID)

\* C12: pre-validation accepts a non-empty stack exactly when it is linear on
\* the remote head read in phase 1, and rejects it with a validation error
\* otherwise
C12_AcceptsIffLinear ==
  Prevalidated =>
    /\ Linear <=> sub.err.kind \notin {"validation", "missing parent"}
    /\ ~Linear => (sub.pc = "failed" /\ sub.err.kind = "validation" /\ sub.ret = Nil)
    /\ Linear => sub.pc /= "parents"

\* a stack that an earlier call landed, submitted again: it is based on the
\* head that was current before that call
C12_Witness ==
  /\ Len(shist) = 1 /\ shist[1].err = Nil /\ shist[1].ret.Submitted = 2
  /\ Prevalidated
  /\ SubmitStack[1].Parents = <<RemoteHeadCommit>> /\ HeadRead = SubmitStack[2].ID
  /\ sub.err = ValidationError("not a direct child", SubmitStack[1].ID, 1)

\* the change at position i passes the checks of phase 3
PassesAt(i) ==
  /\ Len(SubmitStack[i].Parents) = 1
  /\ SubmitStack[i].Parents[1] = (IF i = 1 THEN HeadRead ELSE SubmitStack[i - 1].ID)

IsMerge(i) == Len(SubmitStack[i].Parents) > 1

Merges == {i \in 1..Len(SubmitStack) : IsMerge(i)}

\* the lowest position that fails phase 3, 0 when every position passes
FirstOffender ==
  LET bad == {i \in 1..Len(SubmitStack) : ~PassesAt(i)}
  IN IF bad = {} THEN 0 ELSE CHOOSE i \in bad : \A j \in bad : i <= j

\* C13 as stated: a stack with a merge fails with a validation error that
\* references the position of a merge change
C13_Original ==
  (Prevalidated /\ Merges /= {}) =>
    /\ sub.pc = "failed" /\ sub.err.kind = "validation"
    /\ \E i \in Merges : sub.err = ValidationError("merge commit", SubmitStack[i].ID, i)
    /\ \A k \in 1..Len(slog) : ~IsMove(slog[k])

\* C13 (amended): a stack with a merge fails with a validation error and no
\* bookmark move or push; the error references the lowest position that
\* fails validation, which is the merge when every change below it passes
C13_MergeRejected ==
  (Prevalidated /\ Merges /= {}) =>
    LET f == FirstOffender
    IN /\ sub.pc = "failed" /\ sub.ret = Nil
       /\ sub.err = ValidationError(IF IsMerge(f) THEN "merge commit" ELSE "not a direct child",
                                    SubmitStack[f].ID, f)
       /\ \A k \in 1..Len(slog) : ~IsMove(slog[k])

C13_Witness ==
  /\ Prevalidated /\ Len(SubmitStack) = 3
  /\ Merges = {3} /\ FirstOffender = 3
  /\ sub.err = ValidationError("merge commit", SubmitStack[3].ID, 3)

\* C14: when the phase-1 query of the remote bookmark returns no revision or
\* more than one, Submit fails there: the stack is not resolved and no
\* bookmark move or push is issued
C14_HeadCountFailsInPhase1 ==
  (/\ Len(SubmitCmds) >= 2
   /\ SubmitCmds[2].ok
   /\ Cardinality(SubmitCmds[2].seen) /= 1) =>
     /\ sub.pc = "failed" /\ sub.ret = Nil
     /\ sub.err = HeadCountError(Cardinality(SubmitCmds[2].seen))
     /\ Len(SubmitCmds) = 2
     /\ sub.revs = <<>>

C14_Witness ==
  /\ sub.pc = "failed" /\ sub.err = HeadCountError(2)
  /\ Len(srevset) >= 1
  /\ SubmitCmds[2].seen = {RemoteHeadCommit, WriterCommit}

\* the Submit call before the current one, once there is one
PrevSubmit == shist[Len(shist)]

TopChange == SubmitStack[Len(SubmitStack)].ID

\* the current call follows one that landed the whole stack, and its phase-1
\* query found the top change as the remote head
SecondRunOnLandedStack ==
  /\ Len(shist) >= 1 /\ Len(SubmitStack) >= 1
  /\ PrevSubmit.err = Nil /\ PrevSubmit.ret = [Submitted |-> Len(SubmitStack)]
  /\ Len(SubmitCmds) >= 2 /\ SubmitCmds[2].ok /\ SubmitCmds[2].seen = {TopChange}

\* C15: a second Submit with the same arguments, after a first one that left
\* the remote head at the top change, issues no bookmark move and no push,
\* and leaves the remote head at the top change
C15_SecondSubmitMovesNothing ==
  SecondRunOnLandedStack =>
    /\ \A k \in 1..Len(slog) : ~IsMove(slog[k])
    /\ sub.result.Submitted = 0
    /\ writerMoves = 0 => remoteHeads = {TopChange}

C15_Witness ==
  /\ SecondRunOnLandedStack /\ Finished /\ writerMoves = 0
  /\ Len(SubmitStack) = 2
  /\ Prevalidated

\* ------------------------------------------------------------------------
\* Properties of Upload: skipped changes
\* ------------------------------------------------------------------------
\* positions of the stack that Upload skips as empty or as anonymous
SkippedEmptyAt == {i \in 1..Len(up.stack) : up.stack[i].IsEmpty}

SkippedAnonymousAt ==
  {i \in 1..Len(up.stack) : ~up.stack[i].IsEmpty /\ TrimSpace(up.stack[i].Description) = <<>>}

\* the current call has rewritten the description of an ancestor of id
AncestorDescribed(id) ==
  \E k \in 1..Len(ucmds) :
    ucmds[k].op = "describe" /\ ucmds[k].ok /\ ucmds[k].id \in Ancestors(repo, id)

\* no describe and no push was issued for the change at position i, and its
\* description is the one the call read
NoCommandFor(i) ==
  /\ ~IssuedFor(ucmds, "describe", up.stack[i].ID)
  /\ ~IssuedFor(ucmds, "push", up.stack[i].ID)
  /\ repo[up.stack[i].ID].Description = up.stack[i].Description

\* C16 as stated: an empty or anonymous change gets no describe and no push,
\* is counted, and has the same description and remote pointers after the
\* run as before it
C16_Original ==
  up.pc = "done" =>
       /\ \A i \in SkippedEmptyAt \cup SkippedAnonymousAt :
            /\ NoCommandFor(i)
            /\ repo[up.stack[i].ID].RemoteBookmarks = up.stack[i].RemoteBookmarks
       /\ up.ret.SkippedEmpty = Cardinality(SkippedEmptyAt)
       /\ up.ret.SkippedAnonymous = Cardinality(SkippedAnonymousAt)

\* C16 (amended): an empty or anonymous change gets no describe and no push,
\* is counted, and keeps its description; it keeps its remote pointers
\* unless the run rewrote the description of one of its ancestors
C16_SkippedUntouched ==
  /\ \A i \in SkippedEmptyAt \cup SkippedAnonymousAt :
       /\ NoCommandFor(i)
       /\ ~AncestorDescribed(up.stack[i].ID) =>
            repo[up.stack[i].ID].RemoteBookmarks = up.stack[i].RemoteBookmarks
  /\ up.pc = "done" =>
       /\ up.ret.SkippedEmpty = Cardinality(SkippedEmptyAt)
       /\ up.ret.SkippedAnonymous = Cardinality(SkippedAnonymousAt)

C16_Witness ==
  /\ up.pc = "done" /\ Len(up.stack) = 2
  /\ SkippedEmptyAt = {2} /\ SkippedAnonymousAt = {}
  /\ up.stack[2].RemoteBookmarks = {PushBookmark(Remote, up.stack[2].ID)}
  /\ repo[up.stack[2].ID].RemoteBookmarks = up.stack[2].RemoteBookmarks
  /\ up.ret.Pushed = 1 /\ up.ret.SkippedEmpty = 1

\* ------------------------------------------------------------------------
\* Properties of the trailer parser
\* ------------------------------------------------------------------------
\* the lines of a text once its trailing whitespace is cut
LinesOf(d) == Split(TrimRight(d, WhiteSpace))

\* a line that ends the backward scan: blank, and not read as a continuation
IsBoundary(line) == TrimSpace(line) = <<>> /\ ~HasPrefix(line, <<SP>>)

HasBoundary(d) ==
  TrimRight(d, WhiteSpace) /= <<>> /\ \E i \in 1..Len(LinesOf(d)) : IsBoundary(LinesOf(d)[i])

Lenient == tcall.fn = "ParseDescriptionTrailers"

FinalParagraph(d) ==
  LET ls == LinesOf(d)
      b == CHOOSE i \in 1..Len(ls) :
             IsBoundary(ls[i]) /\ \A j \in (i + 1)..Len(ls) : ~IsBoundary(ls[j])
  IN SubSeq(ls, b + 1, Len(ls))

IsContinuationLine(line) == HasPrefix(line, <<SP>>)
IsTrailerLine(line) == ~IsContinuationLine(line) /\ trailerRegex(line) /= <<>>
IsCherryPickLine(line) ==
  ~IsContinuationLine(line) /\ ~IsTrailerLine(line) /\ HasPrefix(line, CherryPickPrefix)
IsOtherLine(line) ==
  ~IsContinuationLine(line) /\ ~IsTrailerLine(line) /\ ~IsCherryPickLine(line)

\* the continuation lines that directly follow position i of paragraph P
RECURSIVE ContinuationsAfter(_, _)
ContinuationsAfter(P, i) ==
  IF i < Len(P) /\ IsContinuationLine(P[i + 1])
    THEN <<P[i + 1]>> \o ContinuationsAfter(P, i + 1)
    ELSE <<>>

\* the trailers of paragraph P from position i on, read forwards
RECURSIVE TrailersFrom(_, _)
TrailersFrom(P, i) ==
  IF i > Len(P) THEN <<>>
  ELSE IF IsTrailerLine(P[i])
    THEN LET m == trailerRegex(P[i])
             parts == <<m[2]>> \o ContinuationsAfter(P, i)
             value == Join([parts EXCEPT ![Len(parts)] = TrimRight(@, {SP, "\t"})])
         IN <<[Key |-> m[1], Value |-> value]>> \o TrailersFrom(P, i + 1)
  ELSE TrailersFrom(P, i + 1)

HasGitTrailer(P) ==
  \E i \in 1..Len(P) :
    \/ IsCherryPickLine(P[i])
    \/ IsTrailerLine(P[i]) /\ ToLower(trailerRegex(P[i])[1]) = SignedOffBy

HasOtherLine(P) == \E i \in 1..Len(P) : IsOtherLine(P[i])

\* C18: with a non-trailer line in the final paragraph lenient parsing
\* returns nothing, unless the paragraph holds a Signed-off-by trailer or a
\* cherry-pick line: then it returns the paragraph's trailers without the
\* non-trailer line
C18_GitTrailerException ==
  (Lenient /\ HasBoundary(tcall.arg) /\ HasOtherLine(FinalParagraph(tcall.arg))) =>
    LET P == FinalParagraph(tcall.arg)
    IN IF HasGitTrailer(P) THEN tcall.out = TrailersFrom(P, 1)
       ELSE tcall.out = <<>>

C18_Witness ==
  /\ Lenient
  /\ LinesOf(tcall.arg) = <<L_blank, L_text, L_sob>>
  /\ tcall.out = <<[Key |-> SignedOffBy, Value |-> <<"v">>]>>

Strict == tcall.fn = "ParseTrailers"

IsBlankLine(line) == TrimSpace(line) = <<>>

\* C19: strict parsing of a text (trailing whitespace aside) returns the
\* blank-line error when one of its lines is blank, otherwise the
\* non-trailer-line error when one of its lines is neither a trailer nor a
\* continuation line, git trailers and cherry-pick lines included, and a
\* trailer list only when neither is the case
C19_StrictErrors ==
  (Strict /\ TrimRight(tcall.arg, WhiteSpace) /= <<>>) =>
    LET ls == LinesOf(tcall.arg)
    IN IF \E i \in 1..Len(ls) : IsBlankLine(ls[i])
         THEN tcall.out.err /= <<>> /\ tcall.out.err[1].Kind = TrailerErrorBlankLine
       ELSE IF \E i \in 1..Len(ls) : IsOtherLine(ls[i]) \/ IsCherryPickLine(ls[i])
         THEN tcall.out.err /= <<>> /\ tcall.out.err[1].Kind = TrailerErrorNonTrailerLine
       ELSE tcall.out.err = <<>>

\* the round trip: RemoveParentTrailer called on what UpdateParentTrailer
\* returned for the caller's text
RoundTrip ==
  /\ command = "trailers"
  /\ tcall.fn = "RemoveParentTrailer"
  /\ Len(tcall.prev) = 1
  /\ tcall.prev[1].fn = "UpdateParentTrailer"

\* no line of d carries the forge-parent key
NoParentTrailer(d) ==
  \A i \in 1..Len(Split(d)) :
    LET m == trailerRegex(Split(d)[i])
    IN m = <<>> \/ ToLower(m[1]) /= ToLower(ParentTrailerKey)

\* d ends with its last line or with one newline after it, and none of its
\* lines carries spaces only
RegularWhitespace(d) ==
  /\ d = TrimRight(d, WhiteSpace) \/ d = TrimRight(d, WhiteSpace) \o <<NL>>
  /\ \A i \in 1..Len(Split(d)) : ~HasPrefix(Split(d)[i], <<SP>>)

\* the lines of d that are not blank, in order
NonBlankLines(d) ==
  LET ls == Split(d)
      keep(line) == TrimSpace(line) /= <<>>
  IN SelectSeq(ls, keep)

\* C20: for a description without a forge-parent trailer and with regular
\* trailing whitespace, the empty description and descriptions with other
\* trailers included, removing the parent trailer from what
\* UpdateParentTrailer returned gives back the description where blank
\* lines are left out of the comparison
C20_RoundTrip ==
  (RoundTrip /\ NoParentTrailer(tcall.orig) /\ RegularWhitespace(tcall.orig)) =>
    NonBlankLines(tcall.out) = NonBlankLines(tcall.orig)

\* the call made just before the last one, as a sequence of at most one call
PreviousCall ==
  IF tcall.prev = <<>> THEN <<>> ELSE <<tcall.prev[Len(tcall.prev)]>>

\* the lenient parser called on what UpdateParentTrailer returned
ParsedAfterUpdate ==
  /\ command = "trailers"
  /\ tcall.fn = "ParseDescriptionTrailers"
  /\ PreviousCall /= <<>>
  /\ PreviousCall[1].fn = "UpdateParentTrailer"

\* C21: for every description and id X, the lenient parser applied to what
\* UpdateParentTrailer(d, X) returned finds a forge-parent trailer, and its
\* value is X
C21_ParseRecoversParent ==
  ParsedAfterUpdate =>
    LET t == GetTrailer(tcall.out, ParentTrailerKey)
    IN t /= <<>> /\ t[1].Value = PreviousCall[1].id

RemoveCalled == command = "trailers" /\ tcall.fn = "RemoveParentTrailer"

\* C22: RemoveParentTrailer called on a description in which the parser
\* finds no forge-parent trailer returns exactly the description, with or
\* without other trailers and with or without a final newline
C22_RemoveWithoutParentIsIdentity ==
  (RemoveCalled /\ GetTrailer(ParseDescriptionTrailers(tcall.arg), ParentTrailerKey) = <<>>) =>
    tcall.out = tcall.arg

SetCalled == command = "trailers" /\ tcall.fn = "SetTrailer"

\* the positions of T whose key is k, case aside
KeyMatches(T, k) == {i \in 1..Len(T) : ToLower(T[i].Key) = ToLower(k)}

\* C23: SetTrailer(T, k, v) puts (k, v) at the position of the first trailer
\* of T whose key is k case aside and leaves every other position as it
\* was, later trailers with key k included; with no such trailer it returns
\* T with (k, v) appended; GetTrailer(result, k) has value v and the result
\* is at most one longer than T
C23_SetTrailer ==
  SetCalled =>
    LET T == tcall.arg
        k == tcall.key
        v == tcall.id
        R == tcall.out
        hits == KeyMatches(T, k)
    IN /\ IF hits = {} THEN R = Append(T, [Key |-> k, Value |-> v])
          ELSE LET first == CHOOSE i \in hits : \A j \in hits : i <= j
               IN /\ Len(R) = Len(T)
                  /\ R[first] = [Key |-> k, Value |-> v]
                  /\ \A i \in 1..Len(T) : i /= first => R[i] = T[i]
       /\ GetTrailer(R, k) /= <<>> /\ GetTrailer(R, k)[1].Value = v
       /\ Len(R) <= Len(T) + 1

\* a key given in the other case replaces the first of two forge-parent
\* trailers and leaves the second
C23_Witness ==
  /\ SetCalled
  /\ tcall.key = <<"FP">>
  /\ tcall.arg = <<[Key |-> <<"fp">>, Value |-> <<"a">>], [Key |-> <<"fp">>, Value |-> <<"a">>]>>
  /\ tcall.out = <<[Key |-> <<"FP">>, Value |-> <<"b">>], [Key |-> <<"fp">>, Value |-> <<"a">>]>>

\* the change Open was called for
OpenChange == repo[revset[1]]

\* the records the config holds for the change Open was called for
RecordsFor(id) == SelectSeq(reviewRecords, LAMBDA r : r.ChangeID = id)

HasStatus(id, status) ==
  \E i \in 1..Len(reviewRecords) :
    reviewRecords[i].ChangeID = id /\ reviewRecords[i].Status = status

\* Open has passed its checks and has not yet written its record
PastChecks == opn.pc \in {"upstream", "branch", "fork", "create", "save"}

OpenCalled(what, ok) == \E i \in 1..Len(ocalls) : ocalls[i] = OCall(what, ok)

\* C24: the forge holds a review only if the change's description is not
\* blank and the change carries the fork remote's push pointer, and Open
\* gets past its checks only with no open record for the change in the
\* config; the two checks of the change fail with nothing but the
\* resolution of the revision behind them; a record with status closed is
\* not what Open gives as its reason to fail, and after Open the config
\* holds one record for the change, the new open one; that record is written
\* only after CreateReview has succeeded
C24_OpenPreconditions ==
  command = "open" =>
    /\ forgeReviews /= <<>> =>
         /\ TrimSpace(OpenChange.Description) /= <<>>
         /\ PushBookmark(Remote, revset[1]) \in OpenChange.RemoteBookmarks
    /\ PastChecks => ~HasStatus(opn.rev, "open")
    /\ opn.err \in {OpenError("empty description"), OpenError("not uploaded")} =>
         ocalls = <<OCall("rev", TRUE)>> /\ forgeReviews = <<>>
    /\ opn.err = OpenError("review already exists") => HasStatus(opn.rev, "open")
    /\ opn.pc = "done" =>
         RecordsFor(opn.rev) =
           <<ReviewRecord(opn.rev, FormatID(opn.ret.Number), opn.ret.URL, "open")>>
    /\ \A i \in 1..Len(reviewRecords) :
         reviewRecords[i].ForgeID /= FormatID(0) =>
           /\ OpenCalled("create review", TRUE)
           /\ \E n \in 1..Len(forgeReviews) : reviewRecords[i].ForgeID = FormatID(n)
    /\ OpenCalled("save record", TRUE) \/ OpenCalled("save record", FALSE) =>
         OpenCalled("create review", TRUE)

\* Open has returned its result where the config held a closed record for
\* the change ahead of another change's record: the new open record stands
\* in its place
C24_Witness ==
  /\ command = "open"
  /\ opn.pc = "done"
  /\ Len(reviewRecords) = 2
  /\ reviewRecords[1] = ReviewRecord("b", FormatID(1), ReviewURL(1), "open")
  /\ forgeReviews /= <<>>

\* C25: when the config's record for the change has status closed or
\* merged, Open does not end with an error raised on account of a record
C25_ClosedMergedNonFatal ==
  (command = "open" /\ opn.pc = "failed" /\ RecordsFor(opn.rev) /= <<>>
     /\ RecordsFor(opn.rev)[1].Status \in {"closed", "merged"}) =>
    opn.err \notin {OpenError("review already exists"), OpenError("already merged")}

\* the current call has rewritten the description of a change of the stack
\* from which the change at position j descends
RewrittenBelow(j) ==
  \E i \in 1..(j - 1) :
    /\ up.stack[i].ID \in Ancestors(repo, up.stack[j].ID)
    /\ \E k \in 1..Len(ucmds) :
         ucmds[k] = UCmd("describe", up.stack[i].ID, TRUE)

\* C26: when a run of Upload has rewritten the description of a change, every
\* processed change later in the stack that descends from it has been
\* pushed by the end of the run
C26_DescendantsOfRewrittenArePushed ==
  (command = "upload" /\ up.pc = "done") =>
    \A j \in 1..Len(up.stack) :
      (Processed(up.stack[j]) /\ RewrittenBelow(j)) =>
        IssuedFor(ucmds, "push", up.stack[j].ID)

\* the forge-parent trailer the description read for a change carries
TrailerRead(rev) == GetTrailer(ParseDescriptionTrailers(rev.Description), ForgeParentKey)

\* the parent-tracking state read for a change is already correct: a
\* forge-parent trailer naming its mutable parent, or no mutable parent, no
\* forge-parent trailer and no line with the forge-parent key
ParentStateCorrect(rev) ==
  LET mp == MutableParent(rev.Parents, up.revmap, 1)
  IN /\ mp.missing = ""
     /\ IF mp.id /= ""
          THEN TrailerRead(rev) /= <<>> /\ TrailerRead(rev)[1].Value = <<mp.id>>
          ELSE /\ TrailerRead(rev) = <<>>
               /\ \A i \in 1..Len(Split(rev.Description)) :
                    ~IsForgeParentLine(Split(rev.Description)[i])

\* C27: for a processed change whose parent-tracking state is already
\* correct, whatever the trailing newlines of its description, Upload issues
\* no describe, and it pushes the change when the synced marker is missing
C27_CorrectStateNotRewritten ==
  command = "upload" =>
    \A i \in 1..Len(up.stack) :
      (Done(i) /\ Processed(up.stack[i]) /\ ParentStateCorrect(up.stack[i])) =>
        /\ ~IssuedFor(ucmds, "describe", up.stack[i].ID)
        /\ ~IsSynced(up.stack[i], Remote) => IssuedFor(ucmds, "push", up.stack[i].ID)

\* the same for descriptions that end with exactly one newline
C27_SingleNewline ==
  command = "upload" =>
    \A i \in 1..Len(up.stack) :
      (Done(i) /\ Processed(up.stack[i]) /\ ParentStateCorrect(up.stack[i])
         /\ up.stack[i].Description = TrimRight(up.stack[i].Description, {NL}) \o <<NL>>) =>
        /\ ~IssuedFor(ucmds, "describe", up.stack[i].ID)
        /\ ~IsSynced(up.stack[i], Remote) => IssuedFor(ucmds, "push", up.stack[i].ID)

\* the position of the first successful push of id among the commands of the
\* current call, 0 when there is none
PushedAt(id) ==
  LET ks == {k \in 1..Len(ucmds) : ucmds[k] = UCmd("push", id, TRUE)}
  IN IF ks = {} THEN 0 ELSE CHOOSE k \in ks : \A l \in ks : k <= l

\* C28: after a successful Upload, when the description of a change pushed
\* in the run carries "forge-parent: P", the change P was pushed earlier in
\* the run or carried the marker "<remote>/push-P" when the run read it,
\* whether P is empty, anonymous or outside the revset
C28_ParentOnRemote ==
  (command = "upload" /\ up.pc = "done") =>
    \A j \in 1..Len(up.stack) :
      LET id == up.stack[j].ID
          t == ForgeParentOf(id)
      IN (PushedAt(id) /= 0 /\ t /= <<>> /\ Len(t[1].Value) = 1
            /\ t[1].Value[1] \in DOMAIN up.revmap) =>
           LET P == t[1].Value[1]
           IN \/ PushedAt(P) /= 0 /\ PushedAt(P) < PushedAt(id)
              \/ IsSynced(up.revmap[P], Remote)

\* a describe or push of the current call for that change
IsWriteFor(k, id) == ucmds[k].id = id /\ ucmds[k].op \in {"describe", "push"}

\* C29: for two changes of the stack of which one is a declared parent of
\* the other, every describe and push for the parent is issued before any
\* describe or push for the child
C29_ParentBeforeChild ==
  command = "upload" =>
    \A i, j \in 1..Len(up.stack) :
      up.stack[i].ID \in SeqToSet(up.stack[j].Parents) =>
        \A k, l \in 1..Len(ucmds) :
          (IsWriteFor(k, up.stack[i].ID) /\ IsWriteFor(l, up.stack[j].ID)) => k < l

\* a run that issued commands for a change and for its declared parent
C29_Witness ==
  /\ command = "upload"
  /\ up.pc = "done"
  /\ Len(up.stack) = 2
  /\ up.stack[1].ID \in SeqToSet(up.stack[2].Parents)
  /\ \E k, l \in 1..Len(ucmds) :
       IsWriteFor(k, up.stack[1].ID) /\ IsWriteFor(l, up.stack[2].ID)

\* a declared parent of the change at position i that is in neither the
\* stack nor the parent set Upload resolved
HasMissingParent(i) ==
  \E k \in 1..Len(up.stack[i].Parents) : up.stack[i].Parents[k] \notin DOMAIN up.revmap

InLoop == up.pc \in {"loop", "done"} \/ (up.pc = "failed" /\ up.idx >= 1)

\* C30: when a declared parent of a processed change, at whatever position
\* of its parent list, is in neither the resolved stack nor the resolved
\* parent set, Upload issues no describe and no push for the change, does
\* not get past it, and fails with the missing-parent error on reaching it
C30_MissingParentIsFatal ==
  (command = "upload" /\ InLoop) =>
    \A i \in 1..Len(up.stack) :
      (Processed(up.stack[i]) /\ HasMissingParent(i)) =>
        /\ ~IssuedFor(ucmds, "describe", up.stack[i].ID)
        /\ ~IssuedFor(ucmds, "push", up.stack[i].ID)
        /\ ~Done(i)
        /\ (up.pc = "failed" /\ up.idx = i) => up.err.kind = "missing parent"

\* the same for a missing parent that stands before every mutable parent
\* of the parent list
C30_MissingBeforeMutable ==
  (command = "upload" /\ InLoop) =>
    \A i \in 1..Len(up.stack) :
      (Processed(up.stack[i]) /\ MutableParent(up.stack[i].Parents, up.revmap, 1).missing /= "") =>
        /\ ~IssuedFor(ucmds, "describe", up.stack[i].ID)
        /\ ~IssuedFor(ucmds, "push", up.stack[i].ID)
        /\ ~Done(i)
        /\ (up.pc = "failed" /\ up.idx = i) => up.err.kind = "missing parent"

\* Upload has failed on a missing parent
C30_MissingReached ==
  command = "upload" /\ up.pc = "failed" /\ up.err.kind = "missing parent"

\* the commands of kind op that the current Upload call has completed
OkCmds(op) == {k \in 1..Len(ucmds) : ucmds[k].op = op /\ ucmds[k].ok}

\* C31: when Upload returns a result, Skipped is the sum of SkippedEmpty,
\* SkippedAnonymous and SkippedSynced, Pushed + Skipped is the size of the
\* stack, Pushed is the number of pushes made and TrailersUpdated the number
\* of describes made, every change of the stack was either pushed once or
\* skipped with no push, and TrailersUpdated <= Pushed
C31_CountersConsistent ==
  (command = "upload" /\ up.pc = "done") =>
    LET r == up.ret
        pushesOf(i) == {k \in OkCmds("push") : ucmds[k].id = up.stack[i].ID}
    IN /\ r.Skipped = r.SkippedEmpty + r.SkippedAnonymous + r.SkippedSynced
       /\ r.Pushed + r.Skipped = Len(up.stack)
       /\ r.Pushed = Cardinality(OkCmds("push"))
       /\ r.TrailersUpdated = Cardinality(OkCmds("describe"))
       /\ \A i \in 1..Len(up.stack) : Cardinality(pushesOf(i)) <= 1
       /\ r.Skipped = Cardinality({i \in 1..Len(up.stack) : pushesOf(i) = {}})
       /\ r.TrailersUpdated <= r.Pushed

C31_Witness ==
  /\ command = "upload" /\ up.pc = "done" /\ Len(up.stack) = 2
  /\ up.ret.Pushed = 1 /\ up.ret.TrailersUpdated = 1 /\ up.ret.SkippedSynced = 1

\* the positions of the lines of d that are blank after trimming, and of
\* those among them that the scan does not take for a continuation line
BlankPositions(d) ==
  IF TrimRight(d, WhiteSpace) = <<>> THEN {}
  ELSE {i \in 1..Len(LinesOf(d)) : IsBlankLine(LinesOf(d)[i])}

BoundaryPositions(d) ==
  IF TrimRight(d, WhiteSpace) = <<>> THEN {}
  ELSE {i \in 1..Len(LinesOf(d)) : IsBoundary(LinesOf(d)[i])}

\* the lines of d below the last of the positions S
Below(d, S) ==
  LET ls == LinesOf(d)
      b == CHOOSE i \in S : \A j \in S : j <= i
  IN SubSeq(ls, b + 1, Len(ls))

\* what the two entry points return when the scan of d stops at the last
\* of the positions S, with the blank-boundary flag set
StopsAt(d, S) ==
  LET P == Below(d, S)
  IN /\ Strict =>
          tcall.out.err /= <<>> /\ tcall.out.err[1].Kind = TrailerErrorBlankLine
     /\ Lenient =>
          tcall.out = IF HasOtherLine(P) /\ ~HasGitTrailer(P) THEN <<>>
                      ELSE TrailersFrom(P, 1)

\* C32: the backward scan stops at the last line of the text that is blank
\* after trimming, a line of spaces included, and sets the blank-boundary
\* flag: strict parsing reports the blank-line error and lenient parsing
\* reads only the lines below that line, none of which is that line taken
\* as a continuation
C32_BlankLineTerminatesScan ==
  ((Strict \/ Lenient) /\ BlankPositions(tcall.arg) /= {}) =>
    StopsAt(tcall.arg, BlankPositions(tcall.arg))

\* the same for the lines that are empty, or blank without a leading space
C32_EmptyLineTerminatesScan ==
  ((Strict \/ Lenient) /\ BoundaryPositions(tcall.arg) /= {}) =>
    StopsAt(tcall.arg, BoundaryPositions(tcall.arg))

\* a call of a parser on a text with an empty line above a trailer
C32_EmptyLineReached ==
  /\ Strict \/ Lenient
  /\ LinesOf(tcall.arg) = <<L_trailer, L_blank, L_sob>>

\* the positions of ls whose line the scan records as non-trailer line
NonTrailerPositions(ls) ==
  {i \in 1..Len(ls) : IsOtherLine(ls[i]) \/ IsCherryPickLine(ls[i])}

\* C33: when strict parsing fails on a non-trailer line, the line its error
\* names is the non-trailer line closest to the end of the text
C33_NamesLineClosestToEnd ==
  (Strict /\ tcall.out.err /= <<>> /\ tcall.out.err[1].Kind = TrailerErrorNonTrailerLine) =>
    LET ls == LinesOf(tcall.arg)
        N == NonTrailerPositions(ls)
    IN /\ N /= {}
       /\ tcall.out.err[1].line = ls[CHOOSE i \in N : \A j \in N : j <= i]

\* the line named is the non-trailer line closest to the start of the text
C33_NamesLineClosestToStart ==
  (Strict /\ tcall.out.err /= <<>> /\ tcall.out.err[1].Kind = TrailerErrorNonTrailerLine) =>
    LET ls == LinesOf(tcall.arg)
        N == NonTrailerPositions(ls)
    IN /\ N /= {}
       /\ tcall.out.err[1].line = ls[CHOOSE i \in N : \A j \in N : i <= j]

\* strict parsing has failed on a text with two different non-trailer lines
C33_SeveralReached ==
  /\ Strict
  /\ LinesOf(tcall.arg) = <<L_text, L_trailer, L_other>>
  /\ tcall.out.err /= <<>>

\* the lines the backward scan of d reads: those below its last boundary
Scanned(d) == IF HasBoundary(d) THEN FinalParagraph(d) ELSE LinesOf(d)

\* the line a continuation line at position c of P belongs to: the closest
\* line above it that is not a continuation line, 0 when there is none
HeaderOf(P, c) ==
  LET above == {j \in 1..(c - 1) : ~IsContinuationLine(P[j])}
  IN IF above = {} THEN 0 ELSE CHOOSE j \in above : \A k \in above : k <= j

\* the value of the trailer whose header is at position i of P: the rest of
\* the header, then the continuation lines that belong to it
ValueAt(P, i) ==
  LET own == {c \in 1..Len(P) : IsContinuationLine(P[c]) /\ HeaderOf(P, c) = i}
      parts == <<trailerRegex(P[i])[2]>> \o [k \in 1..Cardinality(own) |-> P[i + k]]
  IN Join([parts EXCEPT ![Len(parts)] = TrimRight(@, {SP, "\t"})])

ScanCalled == command = "trailers" /\ tcall.fn = "parseTrailersImpl"

\* C34: the scan returns one trailer for each trailer line it read, in
\* order, and the value of each is made of its header and of exactly the
\* continuation lines with only continuation lines between them and that
\* header; a continuation line whose closest non-continuation line above is
\* a non-trailer line or a cherry-pick line is in no value
C34_NoContinuationLeak ==
  (ScanCalled /\ TrimRight(tcall.arg, WhiteSpace) /= <<>>) =>
    LET P == Scanned(tcall.arg)
        T == {i \in 1..Len(P) : IsTrailerLine(P[i])}
        nth(n) == CHOOSE i \in T : Cardinality({j \in T : j <= i}) = n
    IN /\ Len(tcall.out.trailers) = Cardinality(T)
       /\ \A n \in 1..Cardinality(T) :
            tcall.out.trailers[n] =
              [Key |-> trailerRegex(P[nth(n)])[1], Value |-> ValueAt(P, nth(n))]

C34_Witness ==
  /\ ScanCalled
  /\ \/ LinesOf(tcall.arg) = <<L_trailer, L_text, L_continuation>>
     \/ LinesOf(tcall.arg) = <<L_trailer, L_cherry, L_continuation>>
  /\ tcall.out.trailers = <<[Key |-> <<"k">>, Value |-> <<"v">>]>>

\* UpdateParentTrailer called on what UpdateParentTrailer returned for the
\* caller's text
UpdatedTwice ==
  /\ command = "trailers"
  /\ tcall.fn = "UpdateParentTrailer"
  /\ Len(tcall.prev) = 1
  /\ tcall.prev[1].fn = "UpdateParentTrailer"

\* the lines of d that carry the forge-parent key
ParentLines(d) ==
  {i \in 1..Len(Split(d)) :
     LET m == trailerRegex(Split(d)[i])
     IN m /= <<>> /\ ToLower(m[1]) = ToLower(ParentTrailerKey)}

\* C35: updating twice gives what the second update alone gives on the
\* caller's text, and when that text has no forge-parent line the result has
\* exactly one
C35_UpdateLastWriteWins ==
  UpdatedTwice =>
    /\ tcall.out = UpdateParentTrailer(tcall.orig, tcall.id)
    /\ NoParentTrailer(tcall.orig) => Cardinality(ParentLines(tcall.out)) = 1

\* the same for the texts whose first update is read back by the parser
C35_WhenReadBack ==
  (UpdatedTwice /\ GetTrailer(ParseDescriptionTrailers(tcall.arg), ParentTrailerKey) /= <<>>
     /\ RegularWhitespace(tcall.orig)) =>
    /\ tcall.out = UpdateParentTrailer(tcall.orig, tcall.id)
    /\ NoParentTrailer(tcall.orig) => Cardinality(ParentLines(tcall.out)) = 1

C35_TwiceReached ==
  /\ UpdatedTwice
  /\ tcall.orig = L_text
  /\ tcall.prev[1].id /= tcall.id
  /\ Cardinality(ParentLines(tcall.out)) = 1

IsParentLine(line) ==
  LET m == trailerRegex(line)
  IN m /= <<>> /\ ToLower(m[1]) = ToLower(ParentTrailerKey)

\* the lines of d that are to survive a rewrite of the forge-parent trailer,
\* in order: all but the blank lines, the forge-parent lines and the
\* continuation lines of a forge-parent line
Kept(d) ==
  LET ls == Split(d)
      K == {i \in 1..Len(ls) :
              /\ ~IsBlankLine(ls[i])
              /\ ~IsParentLine(ls[i])
              /\ ~(/\ IsContinuationLine(ls[i])
                   /\ HeaderOf(ls, i) > 0
                   /\ IsParentLine(ls[HeaderOf(ls, i)]))}
      nth(n) == CHOOSE i \in K : Cardinality({j \in K : j <= i}) = n
  IN [n \in 1..Cardinality(K) |-> ls[nth(n)]]

Rewritten ==
  command = "trailers" /\ tcall.fn \in {"UpdateParentTrailer", "RemoveParentTrailer"}

\* C36: UpdateParentTrailer and RemoveParentTrailer return a text with the
\* lines of their input, blank lines and forge-parent lines aside, each once
\* and in the same order
C36_RestPreserved ==
  Rewritten => Kept(tcall.out) = Kept(tcall.arg)

\* a line other than a trailer line in the final paragraph of d
HasNonTrailerLine(d) ==
  HasBoundary(d) /\ \E i \in 1..Len(FinalParagraph(d)) : ~IsTrailerLine(FinalParagraph(d)[i])

\* the same for the texts whose final paragraph is made of trailer lines only
C36_TrailerLinesOnly ==
  (Rewritten /\ ~HasNonTrailerLine(tcall.arg)) => Kept(tcall.out) = Kept(tcall.arg)

C36_RewriteReached ==
  /\ Rewritten
  /\ LinesOf(tcall.arg) = <<L_text, L_blank, L_trailer>>
  /\ Kept(tcall.out) = <<L_text, L_trailer>>

JJRewritten ==
  command = "trailers" /\ tcall.fn \in {"UpdateForgeParent", "RemoveForgeParent"}

\* what package forge returns for the arguments of the call of package jj
ForgeAnswer ==
  IF tcall.fn = "UpdateForgeParent" THEN UpdateParentTrailer(tcall.arg, tcall.id)
  ELSE RemoveParentTrailer(tcall.arg)

\* C37: jj.UpdateForgeParent returns what forge.UpdateParentTrailer returns
\* for the same description and parent id, and jj.RemoveForgeParent what
\* forge.RemoveParentTrailer returns for the same description
C37_ImplementationsAgree ==
  JJRewritten => tcall.out = ForgeAnswer

\* a call of package jj whose result is the one of package forge
C37_AgreeReached ==
  /\ JJRewritten
  /\ LinesOf(tcall.arg) = <<L_text, L_blank, L_parent>>
  /\ tcall.out = ForgeAnswer

\* a call of jj.UpdateForgeParent on a body line followed by a trailer line,
\* where package jj appends without a blank line and package forge with one
C37_UpdateDiffers ==
  /\ command = "trailers" /\ tcall.fn = "UpdateForgeParent"
  /\ tcall.arg = Join(<<L_text, L_trailer>>)
  /\ tcall.out = Join(<<L_text, L_trailer, L_parent>>) \o <<NL>>
  /\ ForgeAnswer = Join(<<L_text, L_trailer, L_blank, L_parent>>) \o <<NL>>

\* the command lists of the Upload calls made so far, the running one included
UploadLogs == {ucmds} \cup {uhist[i].cmds : i \in 1..Len(uhist)}

\* the results of the Upload calls that have returned one
UploadRets ==
  (IF up.pc = "done" THEN {up.ret} ELSE {})
    \cup {uhist[i].ret : i \in {j \in 1..Len(uhist) : uhist[j].err = Nil}}

SubmitLogs == {slog} \cup {shist[i].log : i \in 1..Len(shist)}

SubmitRets ==
  (IF sub.pc = "done" THEN {sub.ret} ELSE {})
    \cup {shist[i].ret : i \in {j \in 1..Len(shist) : shist[j].err = Nil}}

\* C38: with a revset that resolves to no change, Upload makes the stack
\* query and nothing else, leaves the repository as it is and returns
\* all-zero counts; Submit sets no bookmark and pushes nothing, returns
\* Submitted = 0 and leaves the local bookmark and the remote branch alone
C38_EmptyRevsetDoesNothing ==
  /\ (command = "upload" /\ revset = <<>>) =>
       /\ \A log \in UploadLogs :
            Len(log) <= 1 /\ \A k \in 1..Len(log) : log[k].op = "revs" /\ log[k].id = "revset"
       /\ \A r \in UploadRets : r = UploadResult
       /\ (up.pc = "done") <=> (ucmds /= <<>> /\ ucmds[1].ok)
       /\ \A id \in Ids : repo[id].RemoteBookmarks = {} /\ repo[id].Description = D_plain
  /\ (command = "submit" /\ srevset = <<>>) =>
       /\ \A log \in SubmitLogs : \A k \in 1..Len(log) : ~IsMove(log[k])
       /\ \A r \in SubmitRets : r = SubmitResult
       /\ bookmark = RemoteHeadCommit
       /\ writerMoves = 0 => remoteHeads = trackedHeads

C38_Witness ==
  /\ command = "upload" /\ revset = <<>>
  /\ up.pc = "done" /\ up.ret = UploadResult
  /\ Len(uhist) = 1 /\ uhist[1].ret = UploadResult

\* Submit has returned for an empty revset
C38_SubmitReached ==
  /\ command = "submit" /\ srevset = <<>>
  /\ sub.pc = "done" /\ sub.ret = SubmitResult
  /\ remoteHeads = {RemoteHeadCommit}

\* the positions of records that hold a record of change id
PositionsOf(records, id) == {i \in 1..Len(records) : records[i].ChangeID = id}

StoreCallDone(fn) == command = "records" /\ rcall.fn = fn /\ rcall.err = Nil

Wrote == \E k \in 1..Len(rcall.cmds) : rcall.cmds[k].what = "set"

\* C39: starting from an empty store, the store holds at most one record
\* for each change id; a completed AddReviewRecord for a change id the store
\* held puts the new record at the position of the old one and leaves the
\* other records as they were, and appends it otherwise; a completed
\* RemoveReviewRecord leaves exactly the records of the other change ids, in
\* order, and issues no write when the store held none for the id
C39_StoreKeyedByChange ==
  (command = "records") =>
    LET B == rcall.before
        R == reviewRecords
        id == rcall.id
    IN /\ \A i, j \in 1..Len(R) : R[i].ChangeID = R[j].ChangeID => i = j
       /\ StoreCallDone("AddReviewRecord") =>
            /\ Wrote
            /\ IF PositionsOf(B, id) = {} THEN R = Append(B, rcall.rec)
               ELSE /\ Len(R) = Len(B)
                    /\ \A i \in 1..Len(B) :
                         R[i] = IF B[i].ChangeID = id THEN rcall.rec ELSE B[i]
       /\ StoreCallDone("RemoveReviewRecord") =>
            /\ PositionsOf(R, id) = {}
            /\ \E keep \in SUBSET (1..Len(B)) :
                 /\ keep = (1..Len(B)) \ PositionsOf(B, id)
                 /\ Len(R) = Cardinality(keep)
                 /\ \A i \in keep : R[Cardinality({j \in keep : j <= i})] = B[i]
            /\ PositionsOf(B, id) = {} => (~Wrote /\ R = B)
            /\ PositionsOf(B, id) /= {} => Wrote

\* a record replaced in place next to the record of another change
C39_Witness ==
  /\ StoreCallDone("AddReviewRecord")
  /\ Len(rcall.before) = 2
  /\ rcall.before[1].ChangeID = rcall.id
  /\ rcall.before[1] /= rcall.rec
  /\ reviewRecords = <<rcall.rec, rcall.before[2]>>

\* a removal of a change id the store does not hold, and one of an id it holds
C39_RemoveAbsentReached ==
  /\ StoreCallDone("RemoveReviewRecord")
  /\ Len(rcall.before) = 1 /\ rcall.before[1].ChangeID /= rcall.id
  /\ rcall.cmds = <<OCall("list", TRUE)>>

C39_RemovePresentReached ==
  /\ StoreCallDone("RemoveReviewRecord")
  /\ Len(rcall.before) = 2 /\ rcall.before[1].ChangeID = rcall.id
  /\ reviewRecords = <<rcall.before[2]>>

====
